---- MODULE Spec2Model ----
(***************************************************************************)
(* Ordering, traversal, date rebase and recurrence generation of the       *)
(* pm-rapi work-item trees (Task, TaskStatus, Backlog).                    *)
(*                                                                         *)
(* db holds the persisted rows, one function id -> row per Django model.   *)
(* call, pre and ret record the last operation: its name and arguments,    *)
(* the store as it was before it ran, and the value it returned.  gen      *)
(* holds the local variables of repeated_task_creator while its loop runs. *)
(***************************************************************************)
EXTENDS Integers, Sequences, FiniteSets, TLC

VARIABLES db, call, pre, ret, gen

vars == <<db, call, pre, ret, gen>>

----------------------------------------------------------------------------
(* Bounds of the model *)

\* rows of the table a rebase is tried on besides row 1
NumOthers == 2
\* largest order a row starts with (orders start at -1: the field is a plain
\* IntegerField, 0 means "unset")
MaxOrder == 1

Clients == {1, 2}
Projects == {1, 2}
Orders == (-1) .. MaxOrder

\* null of a nullable column (a foreign key, a timestamp, a number)
None == -1
\* null of duration_unit, which is text
NoUnit == ""
\* null of rrule: no recurrence rule
NoRule == [period |-> 0, count |-> None, length |-> 0]

----------------------------------------------------------------------------
(* Rows *)

Task(parent_task, project, client, order, is_deleted, template) ==
    [parent_task |-> parent_task, project |-> project, client |-> client,
     order |-> order, is_deleted |-> is_deleted, _template |-> template,
     started |-> None, deadline |-> None, rrule |-> NoRule,
     duration_estimate |-> None, duration_unit |-> NoUnit,
     dependency |-> None, predecessor |-> None]

TaskStatus(parent, project, client, order, is_deleted, template) ==
    [parent |-> parent, project |-> project, client |-> client,
     order |-> order, is_deleted |-> is_deleted, _template |-> template,
     final_stage |-> FALSE]

Backlog(hlr, client, order, is_deleted, template) ==
    [hlr |-> hlr, client |-> client, order |-> order,
     is_deleted |-> is_deleted, _template |-> template]

NoRows == <<>>

EmptyDb ==
    [tasks |-> NoRows, task_statuses |-> NoRows, backlogs |-> NoRows,
     task_backlogs |-> NoRows, task_resources |-> NoRows]

NoCall == [op |-> "none"]
NoGen == [pc |-> "idle"]

----------------------------------------------------------------------------
(* Query helpers *)

\* a manager without the soft-delete filter (all_objects)
AllObjects(table) == DOMAIN table

\* the default manager: every query through Model.objects sees only rows that
\* are neither tombstoned nor templates
Objects(table) ==
    {id \in DOMAIN table : ~table[id].is_deleted /\ ~table[id]._template}

Max(S) == CHOOSE x \in S : \A y \in S : y <= x

Permutations_(S) ==
    {f \in [1 .. Cardinality(S) -> S] :
        \A i, j \in 1 .. Cardinality(S) : i # j => f[i] # f[j]}

\* .order_by("order"): the rows of S in ascending order; the database is free
\* to return rows of equal order either way round
OrderBy(S, table) ==
    {f \in Permutations_(S) :
        \A i \in 1 .. (Cardinality(S) - 1) : table[f[i]].order <= table[f[i + 1]].order}

\* position of id in the sequence seq, 0 when absent
IndexOf(seq, id) ==
    IF \E i \in 1 .. Len(seq) : seq[i] = id
    THEN CHOOSE i \in 1 .. Len(seq) : seq[i] = id
    ELSE 0

----------------------------------------------------------------------------
(* Order rebase: api/utils.py *)

\* pre_save hook of TaskStatus: a status saved with order 0 in a project gets
\* 1 + the largest order of the project's other visible statuses
set_order_for_task_status(statuses, id, instance) ==
    IF instance.order = 0 /\ instance.project # None
    THEN LET others == {i \in Objects(statuses) \ {id} :
                            statuses[i].project = instance.project}
             order == IF others = {} THEN 0
                      ELSE Max({statuses[i].order : i \in others})
         IN  [instance EXCEPT !.order = instance.order + order + 1]
    ELSE instance

next_task_statuses(statuses, instance, order, project, client) ==
    OrderBy({i \in Objects(statuses) \ {instance} :
                /\ statuses[i].parent = statuses[instance].parent
                /\ statuses[i].order >= order
                /\ statuses[i].project = project
                /\ statuses[i].client = client}, statuses)

\* the loop of rebase_task_status from position idx on: each status is given
\* its new order and saved, and the save runs the pre_save hook
RECURSIVE SaveTaskStatuses(_, _, _, _)
SaveTaskStatuses(statuses, next, idx, order) ==
    IF idx > Len(next) THEN statuses
    ELSE LET id == next[idx]
             task_status == [statuses[id] EXCEPT !.order = order + idx]
             saved == set_order_for_task_status(statuses, id, task_status)
         IN  SaveTaskStatuses([statuses EXCEPT ![id] = saved], next, idx + 1, order)

rebase_task_status(statuses, next, order) ==
    SaveTaskStatuses(statuses, next, 1, order)

next_backlogs(backlogs, instance, order, hlr, client) ==
    OrderBy({i \in Objects(backlogs) \ {instance} :
                /\ backlogs[i].order >= order
                /\ backlogs[i].hlr = hlr
                /\ backlogs[i].client = client}, backlogs)

\* backlog.no_order_signal = True: the save skips the default-order hook
rebase_backlogs_order(backlogs, next, order) ==
    [i \in DOMAIN backlogs |->
        IF IndexOf(next, i) > 0
        THEN [backlogs[i] EXCEPT !.order = order + IndexOf(next, i)]
        ELSE backlogs[i]]

next_tasks(tasks, instance, order, parent_task, project, client) ==
    OrderBy({i \in Objects(tasks) \ {instance} :
                /\ tasks[i].order >= order
                /\ tasks[i].parent_task = parent_task
                /\ tasks[i].project = project
                /\ tasks[i].client = client}, tasks)

\* the numbering that starts at order instead of order + 1
rebase_tasks_order_from_zero(tasks, next, order) ==
    [i \in DOMAIN tasks |->
        IF IndexOf(next, i) > 0
        THEN [tasks[i] EXCEPT !.order = order + IndexOf(next, i) - 1]
        ELSE tasks[i]]

\* task.no_order_signal = True: the save skips the default-order hook
rebase_tasks_order(tasks, next, order) ==
    [i \in DOMAIN tasks |->
        IF IndexOf(next, i) > 0
        THEN [tasks[i] EXCEPT !.order = order + IndexOf(next, i)]
        ELSE tasks[i]]

----------------------------------------------------------------------------
(* Rebase of sibling orders: the stores it is tried on *)

\* how a row differs from row 1 (root, project 1, client 1, visible)
Variants == {"same", "other_parent", "other_project", "other_client",
             "deleted", "template"}

VariantTask(v, order) ==
    Task(IF v = "other_parent" THEN 1 ELSE None,
         IF v = "other_project" THEN 2 ELSE 1,
         IF v = "other_client" THEN 2 ELSE 1,
         order, v = "deleted", v = "template")

VariantTaskStatus(v, order) ==
    TaskStatus(IF v = "other_parent" THEN 1 ELSE None,
               IF v = "other_project" THEN 2 ELSE 1,
               IF v = "other_client" THEN 2 ELSE 1,
               order, v = "deleted", v = "template")

VariantBacklog(v, order) ==
    Backlog(IF v = "other_project" THEN 2 ELSE 1,
            IF v = "other_client" THEN 2 ELSE 1,
            order, v = "deleted", v = "template")

RebaseIds == 1 .. (NumOthers + 1)

InitRebase ==
    /\ \E vs \in [RebaseIds -> Variants], os \in [RebaseIds -> Orders] :
         /\ vs[1] = "same"
         /\ \/ db = [EmptyDb EXCEPT
                       !.tasks = [i \in RebaseIds |-> VariantTask(vs[i], os[i])]]
            \/ db = [EmptyDb EXCEPT
                       !.task_statuses =
                           [i \in RebaseIds |-> VariantTaskStatus(vs[i], os[i])]]
            \/ /\ \A i \in RebaseIds : vs[i] # "other_parent"
               /\ db = [EmptyDb EXCEPT
                          !.backlogs =
                              [i \in RebaseIds |-> VariantBacklog(vs[i], os[i])]]
    /\ call = NoCall
    /\ pre = EmptyDb
    /\ ret = None
    /\ gen = NoGen

\* TaskListCreateAPIView.perform_create / TaskRetrieveUpdateDestroyAPIView.
\* perform_update with rebase_task_order: the saved instance, its own order and
\* scope, the caller's client
RebaseTasksOrder ==
    /\ call.op = "none"
    /\ \E instance \in Objects(db.tasks), client \in Clients :
         LET t == db.tasks[instance] IN
         \E next \in next_tasks(db.tasks, instance, t.order, t.parent_task,
                                t.project, client) :
            /\ db' = [db EXCEPT !.tasks = rebase_tasks_order(db.tasks, next, t.order)]
            /\ call' = [op |-> "rebase_tasks_order", kind |-> "Task",
                        instance |-> instance, order |-> t.order,
                        parent |-> t.parent_task, scope |-> t.project,
                        client |-> client]
    /\ pre' = db
    /\ ret' = None
    /\ UNCHANGED gen

\* TaskStatusListCreateAPIView.perform_create / TaskStatusRetrieveUpdateDestroy
\* APIView.perform_update with rebase, which need instance.project
RebaseTaskStatus ==
    /\ call.op = "none"
    /\ \E instance \in Objects(db.task_statuses), client \in Clients :
         LET s == db.task_statuses[instance] IN
         /\ s.project # None
         /\ \E next \in next_task_statuses(db.task_statuses, instance, s.order,
                                           s.project, client) :
               /\ db' = [db EXCEPT !.task_statuses =
                            rebase_task_status(db.task_statuses, next, s.order)]
               /\ call' = [op |-> "rebase_task_status", kind |-> "TaskStatus",
                           instance |-> instance, order |-> s.order,
                           parent |-> s.parent, scope |-> s.project,
                           client |-> client]
    /\ pre' = db
    /\ ret' = None
    /\ UNCHANGED gen

\* BacklogListCreateAPIView.perform_create / BacklogRetrieveUpdateDestroyAPIView.
\* perform_update with rebase_backlog_order
RebaseBacklogsOrder ==
    /\ call.op = "none"
    /\ \E instance \in Objects(db.backlogs), client \in Clients :
         LET b == db.backlogs[instance] IN
         \E next \in next_backlogs(db.backlogs, instance, b.order, b.hlr, client) :
            /\ db' = [db EXCEPT !.backlogs =
                         rebase_backlogs_order(db.backlogs, next, b.order)]
            /\ call' = [op |-> "rebase_backlogs_order", kind |-> "Backlog",
                        instance |-> instance, order |-> b.order,
                        parent |-> None, scope |-> b.hlr,
                        client |-> client]
    /\ pre' = db
    /\ ret' = None
    /\ UNCHANGED gen

NextRebase == RebaseTasksOrder \/ RebaseTaskStatus \/ RebaseBacklogsOrder

SpecRebase == InitRebase /\ [][NextRebase]_vars

----------------------------------------------------------------------------
(* Rebase of sibling orders: what a call leaves behind *)

IsRebase ==
    call.op \in {"rebase_tasks_order", "rebase_task_status", "rebase_backlogs_order"}

\* the table of the kind the last call worked on, in the store d
TableOf(d) ==
    IF call.kind = "Task" THEN d.tasks
    ELSE IF call.kind = "TaskStatus" THEN d.task_statuses
    ELSE d.backlogs

ParentOf(row) ==
    IF call.kind = "Task" THEN row.parent_task
    ELSE IF call.kind = "TaskStatus" THEN row.parent
    ELSE None

ScopeOf(row) == IF call.kind = "Backlog" THEN row.hlr ELSE row.project

Old == TableOf(pre)
New == TableOf(db)

\* the siblings of scope Z: visible rows with the call's parent, project (hlr)
\* and client
InScope(i) ==
    /\ ~Old[i].is_deleted
    /\ ~Old[i]._template
    /\ ParentOf(Old[i]) = call.parent
    /\ ScopeOf(Old[i]) = call.scope
    /\ Old[i].client = call.client

\* the siblings other than n whose order was >= k before the call
Affected ==
    {i \in DOMAIN Old \ {call.instance} : InScope(i) /\ Old[i].order >= call.order}

\* the places a sibling may take among the affected ones, ties either way round
RankLow(s) == Cardinality({t \in Affected : Old[t].order < Old[s].order}) + 1
RankHigh(s) == Cardinality({t \in Affected : Old[t].order <= Old[s].order})

\* the orders of the project's other visible statuses, before or after the call
OtherProjectOrders(s) ==
    {Old[i].order : i \in {j \in Objects(Old) \ {s} : Old[j].project = Old[s].project}}
    \cup
    {New[i].order : i \in {j \in Objects(Old) \ {s} : Old[j].project = Old[s].project}}

\* C1 as stated: after Rebase(n, k, Z) every sibling other than n whose order
\* was >= k has exactly its previous order + 1.
C1_PreviousOrderPlusOne ==
    IsRebase => \A s \in Affected : New[s].order = Old[s].order + 1

\* C1 amended: after Rebase(n, k, Z) every sibling other than n whose order was
\* >= k has order k + r, r its 1-based rank among those siblings by previous
\* order (equal orders in either sequence), which is its previous order + 1
\* exactly when its previous order was k + r - 1; a TaskStatus for which k + r
\* is 0 gets from the pre_save hook 1 + an order of another status of the project.
C1_OrderIsTargetPlusRank ==
    IsRebase =>
        \A s \in Affected :
            \/ New[s].order \in (call.order + RankLow(s)) .. (call.order + RankHigh(s))
            \/ /\ call.kind = "TaskStatus"
               /\ 0 \in (call.order + RankLow(s)) .. (call.order + RankHigh(s))
               /\ \/ New[s].order = 1 /\ OtherProjectOrders(s) = {}
                  \/ New[s].order - 1 \in OtherProjectOrders(s)

\* a rebase that moved two siblings, one of them by more or less than one
C1_Witness ==
    /\ IsRebase
    /\ Cardinality(Affected) >= 2
    /\ \E s \in Affected : New[s].order # Old[s].order + 1
    /\ \E s \in Affected : New[s].order = Old[s].order + 1

\* C2: after Rebase(n, k, Z) the m siblings other than n that had order >= k
\* hold exactly the orders k+1 .. k+m, in ascending order of their previous
\* orders, and none of them shares order k with n.
C2_GapFreeFromInsertionPoint ==
    IsRebase =>
        /\ {New[s].order : s \in Affected} =
               (call.order + 1) .. (call.order + Cardinality(Affected))
        /\ \A s, t \in Affected : s # t => New[s].order # New[t].order
        /\ \A s, t \in Affected : Old[s].order < Old[t].order => New[s].order < New[t].order
        /\ \A s \in Affected : New[s].order # call.order

\* C2 for the two kinds whose save skips the default-order hook
C2_TasksAndBacklogsGapFree ==
    (IsRebase /\ call.kind # "TaskStatus") => C2_GapFreeFromInsertionPoint

\* C3: Rebase(n, k, Z) leaves unchanged n itself, every sibling of Z whose order
\* is < k, every row outside Z (other parent, project/hlr or client) and every
\* tombstoned or template row; no row is added or removed.
C3_RebaseFrame ==
    IsRebase =>
        /\ DOMAIN New = DOMAIN Old
        /\ \A i \in DOMAIN Old : i \notin Affected => New[i] = Old[i]
        /\ New[call.instance].order = call.order
        /\ \A d \in {"tasks", "task_statuses", "backlogs"} :
               TableOf(pre) # pre[d] => db[d] = pre[d]

\* a rebase that moved a sibling while the store held a lower sibling, a row of
\* another scope and an invisible row, each with an order the move would reach
C3_Witness ==
    /\ IsRebase
    /\ Affected # {}
    /\ \E i \in DOMAIN Old \ {call.instance} :
          /\ ~InScope(i)
          /\ Old[i].order >= call.order
          /\ (Old[i].is_deleted \/ Old[i]._template)
    /\ \E i \in DOMAIN Old \ Affected : i # call.instance /\ New[i] = Old[i]

----------------------------------------------------------------------------
(* Descendant traversal: models.py *)

\* the ids of S as a sequence, ascending: the rows of one recursion level come
\* out in storage order
SortedSeq(S) ==
    CHOOSE f \in Permutations_(S) :
        \A i, j \in 1 .. Cardinality(S) : i < j => f[i] < f[j]

\* queryset[1:]
DropFirst(rows) == IF rows = <<>> THEN <<>> ELSE Tail(rows)

SeqToSet(seq) == {seq[i] : i \in 1 .. Len(seq)}

\* the recursive member of Task.get_child_branch, iterated from the working
\* table level: tk.parent_task_id = t.id AND tk.is_deleted = false
RECURSIVE TaskBranchRows(_, _)
TaskBranchRows(tasks, level) ==
    IF level = <<>> THEN <<>>
    ELSE LET joined == {tk \in DOMAIN tasks :
                          /\ tasks[tk].parent_task \in SeqToSet(level)
                          /\ ~tasks[tk].is_deleted}
         IN  level \o TaskBranchRows(tasks, SortedSeq(joined))

\* Task.get_child_branch: the recursive query seeded with the task's own row
\* (WHERE id = %s), without its first row
Task_get_child_branch(tasks, id) ==
    DropFirst(TaskBranchRows(tasks, <<id>>))

\* the recursive member of TaskStatus.get_child_branch: ts.parent_id = t.id AND
\* ts.is_deleted = false AND ts._template = false
RECURSIVE TaskStatusBranchRows(_, _)
TaskStatusBranchRows(statuses, level) ==
    IF level = <<>> THEN <<>>
    ELSE LET joined == {ts \in DOMAIN statuses :
                          /\ statuses[ts].parent \in SeqToSet(level)
                          /\ ~statuses[ts].is_deleted
                          /\ ~statuses[ts]._template}
         IN  level \o TaskStatusBranchRows(statuses, SortedSeq(joined))

\* TaskStatus.get_child_branch: the seed row is itself filtered (id = %s AND
\* is_deleted = false AND "_template" = false)
TaskStatus_get_child_branch(statuses, id) ==
    DropFirst(TaskStatusBranchRows(statuses,
        IF ~statuses[id].is_deleted /\ ~statuses[id]._template
        THEN <<id>> ELSE <<>>))

----------------------------------------------------------------------------
(* Descendant traversal: the trees it is tried on *)

\* rows of the tree a traversal is tried on
NumNodes == 4

Flags == {"visible", "deleted", "template"}

BranchIds == 1 .. NumNodes

\* forests: the parent of a row is an earlier row or none, so every ancestor
\* chain ends at a root (the recursive queries do not return on a cycle)
Forests(ids) ==
    {ps \in [ids -> ids \cup {None}] : \A i \in ids : ps[i] = None \/ ps[i] < i}

InitBranch ==
    /\ \E ps \in Forests(BranchIds), fs \in [BranchIds -> Flags] :
         \/ db = [EmptyDb EXCEPT !.tasks =
                     [i \in BranchIds |->
                        Task(ps[i], 1, 1, i, fs[i] = "deleted", fs[i] = "template")]]
         \/ db = [EmptyDb EXCEPT !.task_statuses =
                     [i \in BranchIds |->
                        TaskStatus(ps[i], 1, 1, i, fs[i] = "deleted", fs[i] = "template")]]
    /\ call = NoCall
    /\ pre = EmptyDb
    /\ ret = None
    /\ gen = NoGen

TaskGetChildBranch ==
    /\ call.op = "none"
    /\ \E id \in DOMAIN db.tasks :
         /\ call' = [op |-> "get_child_branch", kind |-> "Task", instance |-> id]
         /\ ret' = Task_get_child_branch(db.tasks, id)
    /\ pre' = db
    /\ UNCHANGED <<db, gen>>

TaskStatusGetChildBranch ==
    /\ call.op = "none"
    /\ \E id \in DOMAIN db.task_statuses :
         /\ call' = [op |-> "get_child_branch", kind |-> "TaskStatus", instance |-> id]
         /\ ret' = TaskStatus_get_child_branch(db.task_statuses, id)
    /\ pre' = db
    /\ UNCHANGED <<db, gen>>

NextBranch == TaskGetChildBranch \/ TaskStatusGetChildBranch

SpecBranch == InitBranch /\ [][NextBranch]_vars

\* C4: GetDescendantBranch(n) never contains n itself and never contains a
\* tombstoned node or a template node at any depth below n.
C4_BranchExcludesSelfTombstonesTemplates ==
    call.op = "get_child_branch" =>
        \A i \in 1 .. Len(ret) :
            /\ ret[i] # call.instance
            /\ ~TableOf(db)[ret[i]].is_deleted
            /\ ~TableOf(db)[ret[i]]._template

----------------------------------------------------------------------------
(* Date rebase and date conflicts: api/utils.py, models.py *)

\* timestamps are seconds; DATE_TRUNC('minute', t) and
\* t.replace(second=0, microsecond=0) drop the seconds within the minute
SecondsPerMinute == 60

TruncMinute(t) == t - (t % SecondsPerMinute)

\* rebase_the_task_dates: every task of the branch gets difference added to the
\* one field that by names; a null there raises TypeError before anything is
\* written.  bulk_update goes through Task.objects, so it writes only the rows
\* the default manager sees.
rebase_the_task_dates(tasks, parent_task, difference, by) ==
    LET branch == SeqToSet(Task_get_child_branch(tasks, parent_task))
        field == IF by = "started" THEN "started" ELSE "deadline"
    IN  IF \E t \in branch : tasks[t][field] = None
        THEN tasks
        ELSE [i \in DOMAIN tasks |->
                IF i \in branch \cap Objects(tasks)
                THEN [tasks[i] EXCEPT ![field] = @ + difference]
                ELSE tasks[i]]

\* the TypeError of task.started + difference on a null timestamp
rebase_the_task_dates_raises(tasks, parent_task, by) ==
    \E t \in SeqToSet(Task_get_child_branch(tasks, parent_task)) :
        tasks[t][IF by = "started" THEN "started" ELSE "deadline"] = None

\* the recursive member of the two conflict queries: tk.parent_task_id = t.id
\* AND DATE_TRUNC('minute', tk.<field>) > bound AND tk.is_deleted = false AND
\* tk.client = client (a null timestamp compares as unknown: no row)
RECURSIVE ConflictRows(_, _, _, _, _)
ConflictRows(tasks, level, field, bound, client) ==
    IF level = <<>> THEN <<>>
    ELSE LET joined == {tk \in DOMAIN tasks :
                          /\ tasks[tk].parent_task \in SeqToSet(level)
                          /\ tasks[tk][field] # None
                          /\ TruncMinute(tasks[tk][field]) > bound
                          /\ ~tasks[tk].is_deleted
                          /\ tasks[tk].client = client}
         IN  level \o ConflictRows(tasks, SortedSeq(joined), field, bound, client)

get_child_branch_conflict_started_tasks(tasks, id, started, client) ==
    DropFirst(ConflictRows(tasks, <<id>>, "started", TruncMinute(started), client))

get_child_branch_conflict_deadline_tasks(tasks, id, deadline, client) ==
    DropFirst(ConflictRows(tasks, <<id>>, "deadline", TruncMinute(deadline), client))

----------------------------------------------------------------------------
(* Date rebase and date conflicts: the trees they are tried on *)

\* tasks of the tree besides task 1
NumDated == 2

Times == {60, 90, 120}
Differences == {-30, 30}

DatedIds == 1 .. (NumDated + 1)

DatedVariants == {"same", "other_client", "deleted", "template"}

DatedTask(parent_task, v, started, deadline) ==
    [Task(parent_task, 1, IF v = "other_client" THEN 2 ELSE 1, 1,
          v = "deleted", v = "template")
        EXCEPT !.started = started, !.deadline = deadline]

InitDates ==
    /\ \E ps \in Forests(DatedIds), vs \in [DatedIds -> DatedVariants],
          ss \in [DatedIds -> Times \cup {None}],
          ds \in [DatedIds -> Times \cup {None}] :
         /\ vs[1] = "same" /\ ss[1] = 60 /\ ds[1] = 120
         /\ db = [EmptyDb EXCEPT !.tasks =
                     [i \in DatedIds |-> DatedTask(ps[i], vs[i], ss[i], ds[i])]]
    /\ call = NoCall
    /\ pre = EmptyDb
    /\ ret = None
    /\ gen = NoGen

\* TaskRetrieveUpdateDestroyAPIView.perform_update with rebase, after a change
\* of started (by = "started") or of deadline (by = "deadline")
RebaseTheTaskDates ==
    /\ call.op = "none"
    /\ \E parent_task \in Objects(db.tasks), difference \in Differences,
          by \in {"started", "deadline"} :
         /\ db' = [db EXCEPT !.tasks =
                      rebase_the_task_dates(db.tasks, parent_task, difference, by)]
         /\ call' = [op |-> "rebase_the_task_dates", kind |-> "Task",
                     instance |-> parent_task, difference |-> difference, by |-> by,
                     raised |-> rebase_the_task_dates_raises(db.tasks, parent_task, by)]
    /\ pre' = db
    /\ ret' = None
    /\ UNCHANGED gen

\* perform_update without rebase, started changed: the caller's client is the
\* instance's
ConflictStartedTasks ==
    /\ call.op = "none"
    /\ \E id \in Objects(db.tasks), started \in Times :
         /\ call' = [op |-> "get_child_branch_conflict_tasks", kind |-> "Task",
                     instance |-> id, which |-> "started", proposed |-> started,
                     client |-> db.tasks[id].client]
         /\ ret' = get_child_branch_conflict_started_tasks(
                       db.tasks, id, started, db.tasks[id].client)
    /\ pre' = db
    /\ UNCHANGED <<db, gen>>

\* perform_update without rebase, deadline changed
ConflictDeadlineTasks ==
    /\ call.op = "none"
    /\ \E id \in Objects(db.tasks), deadline \in Times :
         /\ call' = [op |-> "get_child_branch_conflict_tasks", kind |-> "Task",
                     instance |-> id, which |-> "deadline", proposed |-> deadline,
                     client |-> db.tasks[id].client]
         /\ ret' = get_child_branch_conflict_deadline_tasks(
                       db.tasks, id, deadline, db.tasks[id].client)
    /\ pre' = db
    /\ UNCHANGED <<db, gen>>

NextDates == RebaseTheTaskDates \/ ConflictStartedTasks \/ ConflictDeadlineTasks

SpecDates == InitDates /\ [][NextDates]_vars

\* the descendants of n in the store d: the tasks below n reached through
\* tasks that are neither tombstoned nor templates
RECURSIVE VisibleBelow(_, _)
VisibleBelow(tasks, S) ==
    LET children == {tk \in Objects(tasks) : tasks[tk].parent_task \in S}
    IN  IF children = {} THEN {} ELSE children \cup VisibleBelow(tasks, children)

Descendants(tasks, n) == VisibleBelow(tasks, {n})

\* C5: RebaseBranchDates(n, delta, anchor), for either anchor, adds delta to
\* both started and deadline of every descendant of n (here: of every
\* descendant that has both), so that deadline - started of each is the same
\* before and after; n itself and the tasks outside n's branch are not modified.
\* Stated on stores without template tasks.
C5_ShiftsStartedAndDeadlineTogether ==
    (/\ call.op = "rebase_the_task_dates" /\ ~call.raised
     /\ \A t \in DOMAIN pre.tasks : ~pre.tasks[t]._template) =>
        /\ \A t \in Descendants(pre.tasks, call.instance) :
              (pre.tasks[t].started # None /\ pre.tasks[t].deadline # None) =>
                  /\ db.tasks[t].started = pre.tasks[t].started + call.difference
                  /\ db.tasks[t].deadline = pre.tasks[t].deadline + call.difference
                  /\ db.tasks[t].deadline - db.tasks[t].started =
                         pre.tasks[t].deadline - pre.tasks[t].started
        /\ \A t \in DOMAIN pre.tasks \ Descendants(pre.tasks, call.instance) :
              db.tasks[t] = pre.tasks[t]

\* C6: DetectDescendantDateConflicts(n, proposedDate, which) returns every
\* non-tombstoned descendant of n, at any depth, whose started (deadline)
\* truncated to the minute is strictly after proposedDate, whatever the nodes
\* between it and n do; it is empty exactly when no descendant violates the
\* date.  Stated on stores whose tasks are all visible to the caller's client.
C6_ReturnsEveryLateDescendant ==
    (/\ call.op = "get_child_branch_conflict_tasks"
     /\ \A t \in DOMAIN db.tasks :
           db.tasks[t].client = call.client /\ ~db.tasks[t]._template) =>
        LET late == {t \in Descendants(db.tasks, call.instance) :
                        /\ db.tasks[t][call.which] # None
                        /\ TruncMinute(db.tasks[t][call.which]) > call.proposed}
        IN  /\ SeqToSet(ret) = late
            /\ (ret = <<>>) <=> (late = {})

----------------------------------------------------------------------------
(* Recurrence generator: api/utils.py *)

SecondsPerHour == 3600
SecondsPerDay == 86400

\* unit_map and timedelta(**{duration_unit: duration_value}).total_seconds();
\* None for a unit the map does not know
DurationSeconds(duration_unit, duration_estimate) ==
    IF duration_unit = "Weeks" THEN duration_estimate * 7 * SecondsPerDay
    ELSE IF duration_unit = "Days" THEN duration_estimate * SecondsPerDay
    ELSE IF duration_unit = "Hours" THEN duration_estimate * SecondsPerHour
    ELSE IF duration_unit = "Minutes" THEN duration_estimate * SecondsPerMinute
    ELSE None

\* The recurrence-rule evaluator is a library the code calls.  A rule is
\* [period, count, length]: occurrence i (from 0) is dtstart + i * period;
\* count is the rule's own COUNT (rule._count) or None; length is the number of
\* occurrences the evaluator yields before it is exhausted, None when it never is.
rrule_has_occurrence(rrule, i) == rrule.length = None \/ i < rrule.length

rrule_occurrence(rrule, dtstart, i) == dtstart + i * rrule.period

\* TaskBacklog.objects.filter(task=task) / TaskResource.objects.filter(task=task)
LinksOf(links, task) ==
    LET ids == SortedSeq({l \in Objects(links) : links[l].task = task})
    IN  [j \in 1 .. Len(ids) |-> links[ids[j]]]

\* Task.objects.filter(parent_task=parent_task)
ChildrenOf(tasks, parent_task) ==
    SortedSeq({t \in Objects(tasks) : tasks[t].parent_task = parent_task})

\* the tasks get_sub_tasks reaches from parent_task
RECURSIVE SubTaskIds(_, _)
SubTaskIds(tasks, parents) ==
    LET children == {t \in Objects(tasks) : tasks[t].parent_task \in parents}
    IN  IF children = {} THEN {} ELSE children \cup SubTaskIds(tasks, children)

\* get_sub_tasks: the nested dictionary, one entry per task reached, with the
\* keys of the dictionary of parent_task itself under top
get_sub_tasks(d, parent_task) ==
    [top |-> ChildrenOf(d.tasks, parent_task),
     nodes |-> [t \in SubTaskIds(d.tasks, {parent_task}) |->
                  [task |-> d.tasks[t],
                   task_backlogs |-> LinksOf(d.task_backlogs, t),
                   task_resources |-> LinksOf(d.task_resources, t),
                   sub_tasks |-> ChildrenOf(d.tasks, t)]]]

\* copies of the links of one task, re-pointed to new_task, with ids from uuid on
CopyLinks(links, new_task, uuid) ==
    [j \in 1 .. Len(links) |->
        [id |-> uuid + j - 1, row |-> [links[j] EXCEPT !.task = new_task]]]

NoObjects(uuid) ==
    [tasks |-> <<>>, task_backlogs |-> <<>>, task_resources |-> <<>>, uuid |-> uuid]

\* a copy that leaves the sub tasks out
create_no_sub_tasks(nodes, subtasks, k, new_parent_task, uuid) == NoObjects(uuid)

\* create_tasks_from_parent_for_new_parent over the keys subtasks[k..]: every
\* sub task is copied under a new id (uuid4(), here the counter uuid) with
\* parent_task = new_parent_task, its links are copied, then its own sub tasks
RECURSIVE create_tasks_from_parent_for_new_parent(_, _, _, _, _)
create_tasks_from_parent_for_new_parent(nodes, subtasks, k, new_parent_task, uuid) ==
    IF k > Len(subtasks) THEN NoObjects(uuid)
    ELSE LET details == nodes[subtasks[k]]
             id == uuid
             sub_task_parent ==
                 [id |-> id, row |-> [details.task EXCEPT !.parent_task = new_parent_task]]
             backlogs == CopyLinks(details.task_backlogs, id, uuid + 1)
             resources == CopyLinks(details.task_resources, id,
                                    uuid + 1 + Len(backlogs))
             sub == create_tasks_from_parent_for_new_parent(
                        nodes, details.sub_tasks, 1, id,
                        uuid + 1 + Len(backlogs) + Len(resources))
             rest == create_tasks_from_parent_for_new_parent(
                        nodes, subtasks, k + 1, new_parent_task, sub.uuid)
         IN  [tasks |-> <<sub_task_parent>> \o sub.tasks \o rest.tasks,
              task_backlogs |-> backlogs \o sub.task_backlogs \o rest.task_backlogs,
              task_resources |-> resources \o sub.task_resources \o rest.task_resources,
              uuid |-> rest.uuid]

\* the guard of the first return without the test of the rule
precondition_unmet_but_for_rule(instance) ==
    \/ instance.deadline = None
    \/ ~(\/ instance.started # None
         \/ /\ instance.duration_estimate # None
            /\ instance.duration_estimate # 0
            /\ instance.duration_unit # NoUnit)

\* the guard of repeated_task_creator's first return
precondition_unmet(instance) ==
    \/ instance.rrule = NoRule
    \/ instance.deadline = None
    \/ ~(\/ instance.started # None
         \/ /\ instance.duration_estimate # None
            /\ instance.duration_estimate # 0
            /\ instance.duration_unit # NoUnit)

\* time_diff_sec and started after the time calculation
time_calculation(instance) ==
    IF instance.started # None /\ instance.deadline # None
    THEN [time_diff_sec |-> instance.deadline - instance.started,
          started |-> instance.started]
    ELSE IF /\ instance.deadline # None
            /\ instance.duration_unit # NoUnit
            /\ instance.duration_estimate # None /\ instance.duration_estimate # 0
            /\ DurationSeconds(instance.duration_unit, instance.duration_estimate) # None
    THEN LET delta == DurationSeconds(instance.duration_unit, instance.duration_estimate)
         IN  [time_diff_sec |-> delta, started |-> instance.deadline - delta]
    ELSE [time_diff_sec |-> None, started |-> instance.started]

\* a guard that lets a span of zero seconds through
time_span_unmet_unless_zero(times) ==
    times.time_diff_sec = None \/ times.started = None

\* the guard of the second return: "if not time_diff_sec or not started"
time_span_unmet(times) ==
    \/ times.time_diff_sec = None
    \/ times.time_diff_sec = 0
    \/ times.started = None

\* Task.objects.filter(parent_task=instance).order_by("-order").first()
latest_order(tasks, instance) ==
    LET children == {t \in Objects(tasks) : tasks[t].parent_task = instance}
    IN  IF children = {} THEN 0 ELSE Max({tasks[t].order : t \in children})

\* the largest id in use: uuid4() is modelled as a counter above it
MaxId(d) ==
    Max({0} \cup DOMAIN d.tasks \cup DOMAIN d.task_backlogs \cup DOMAIN d.task_resources)

\* Task(**base_task) with the fields the loop body sets
new_task(instance, seed, order, started, deadline) ==
    [seed EXCEPT !.rrule = NoRule, !.order = order, !.parent_task = instance,
                 !.started = started, !.deadline = deadline]

\* bulk_create: the objects become rows
BulkCreate(table, objects) ==
    [i \in DOMAIN table \cup {objects[j].id : j \in 1 .. Len(objects)} |->
        IF i \in DOMAIN table THEN table[i]
        ELSE objects[CHOOSE j \in 1 .. Len(objects) : objects[j].id = i].row]

----------------------------------------------------------------------------
(* Recurrence generator: the seeds it is tried on *)

\* sub tasks in the store besides the seed (task 1)
NumSub == 2
\* largest max_count a call is made with
MaxMaxCount == 3
\* largest COUNT of a rule
MaxRuleCount == 3
\* largest number of occurrences a bounded evaluator yields
MaxLength == 4

Day0T10 == 10 * SecondsPerHour
Day0T12 == 12 * SecondsPerHour
Weekly == 7 * SecondsPerDay

Rules ==
    [period : {Weekly},
     count : {None} \cup (1 .. MaxRuleCount),
     length : {None} \cup (1 .. MaxLength)]

WeeklyForever == [period |-> Weekly, count |-> None, length |-> None]

Durations ==
    {<<None, NoUnit>>, <<2, NoUnit>>, <<2, "Hours">>, <<1, "Weeks">>, <<0, "Hours">>}

SubIds == 1 .. (NumSub + 1)

SeedTask(started, deadline, duration, rrule) ==
    [Task(None, 1, 1, 1, FALSE, FALSE)
        EXCEPT !.started = started, !.deadline = deadline, !.rrule = rrule,
               !.duration_estimate = duration[1], !.duration_unit = duration[2]]

SubTask(parent_task, order, flag) ==
    [Task(parent_task, 1, 1, order, flag = "deleted", flag = "template")
        EXCEPT !.started = Day0T10, !.deadline = Day0T12]

TaskBacklog(task, backlog) ==
    [task |-> task, backlog |-> backlog, is_deleted |-> FALSE, _template |-> FALSE]

TaskResource(task, resource) ==
    [task |-> task, resource |-> resource, is_deleted |-> FALSE, _template |-> FALSE]

\* seeds of every schedule and rule, each with one sub task that has one link
\* of each kind
InitSchedules ==
    \E started \in {None, Day0T10}, deadline \in {None, Day0T10, Day0T12},
       duration \in Durations, rrule \in Rules \cup {NoRule} :
        db = [EmptyDb EXCEPT
                !.tasks = <<SeedTask(started, deadline, duration, rrule),
                            SubTask(1, 1, "visible")>>,
                !.task_backlogs = <<TaskBacklog(2, 1)>>,
                !.task_resources = <<TaskResource(2, 1)>>]

\* one seed schedule (Day 0, 10:00 to 12:00, weekly) over every tree of sub
\* tasks, with one link of each kind on any task; the first sub task may be a
\* recurring task itself
InitSubTrees ==
    \E ps \in Forests(SubIds), fs \in [SubIds -> Flags], b \in SubIds, r \in SubIds,
       sub_rrule \in {NoRule, WeeklyForever} :
        /\ fs[1] = "visible"
        /\ db = [EmptyDb EXCEPT
                   !.tasks = [i \in SubIds |->
                                IF i = 1
                                THEN SeedTask(Day0T10, Day0T12, <<None, NoUnit>>,
                                              WeeklyForever)
                                ELSE [SubTask(ps[i], i, fs[i]) EXCEPT
                                        !.rrule = IF i = 2 THEN sub_rrule ELSE NoRule]],
                   !.task_backlogs = <<TaskBacklog(b, 1)>>,
                   !.task_resources = <<TaskResource(r, 1)>>]

InitRecurrence ==
    /\ InitSchedules \/ InitSubTrees
    /\ call = NoCall
    /\ pre = EmptyDb
    /\ ret = None
    /\ gen = NoGen

\* repeated_task_creator up to the loop, on the task id of the store d: the
\* two early returns, the sub tasks and links read once, the time calculation,
\* the rule and latest_order
repeated_task_creator_begin(d, id, by) ==
    LET instance == d.tasks[id]
        times == time_calculation(instance)
        returns == precondition_unmet(instance) \/ time_span_unmet(times)
    IN  IF returns
        THEN [pc |-> "done", returned |-> "None"]
        ELSE [pc |-> "loop", returned |-> "",
              all_sub_tasks |-> get_sub_tasks(d, id),
              parent_task_backlogs |-> LinksOf(d.task_backlogs, id),
              parent_task_resources |-> LinksOf(d.task_resources, id),
              tasks_objects |-> <<>>,
              task_backlogs_objects |-> <<>>,
              task_resources_objects |-> <<>>,
              time_diff_sec |-> times.time_diff_sec,
              dtstart |-> IF by = "deadline" THEN instance.deadline
                          ELSE times.started,
              rule |-> instance.rrule,
              latest_order |-> latest_order(d.tasks, id),
              i |-> 0, count |-> 0,
              uuid |-> MaxId(d) + 1]

\* a call of repeated_task_creator: perform_create / perform_update pass the
\* saved task, by and commit = True; the preview passes commit = False.
RepeatedTaskCreatorBegin ==
    /\ call.op = "none"
    /\ \E id \in {1}, by \in {"deadline", "started"}, commit \in BOOLEAN,
          max_count \in 1 .. MaxMaxCount :
         /\ call' = [op |-> "repeated_task_creator", kind |-> "Task",
                     instance |-> id, by |-> by, commit |-> commit,
                     max_count |-> max_count]
         /\ gen' = repeated_task_creator_begin(db, id, by)
    /\ pre' = db
    /\ ret' = None
    /\ UNCHANGED db

\* the dates of an instance laid on its deadline whatever by says
instance_dates_by_deadline(by, recurrence_dt, time_diff_sec) ==
    [started |-> recurrence_dt - time_diff_sec, deadline |-> recurrence_dt]

\* started and deadline of a new instance: the occurrence is its deadline or
\* its started, the other lies time_diff_sec away
instance_dates(by, recurrence_dt, time_diff_sec) ==
    IF by = "deadline"
    THEN [started |-> recurrence_dt - time_diff_sec, deadline |-> recurrence_dt]
    ELSE [started |-> recurrence_dt, deadline |-> recurrence_dt + time_diff_sec]

\* the objects one pass of the loop body appends
loop_body(g, seed) ==
    LET recurrence_dt == rrule_occurrence(g.rule, g.dtstart, g.i)
        id == g.uuid
        dates == instance_dates(call.by, recurrence_dt, g.time_diff_sec)
        task == new_task(call.instance, seed, g.latest_order + g.count + 1,
                         dates.started, dates.deadline)
        backlogs == CopyLinks(g.parent_task_backlogs, id, g.uuid + 1)
        resources == CopyLinks(g.parent_task_resources, id,
                               g.uuid + 1 + Len(backlogs))
        sub == create_tasks_from_parent_for_new_parent(
                   g.all_sub_tasks.nodes, g.all_sub_tasks.top, 1, id,
                   g.uuid + 1 + Len(backlogs) + Len(resources))
    IN  [g EXCEPT
           !.tasks_objects = @ \o <<[id |-> id, row |-> task]>> \o sub.tasks,
           !.task_backlogs_objects = @ \o backlogs \o sub.task_backlogs,
           !.task_resources_objects = @ \o resources \o sub.task_resources,
           !.uuid = sub.uuid,
           !.count = @ + 1,
           !.i = @ + 1]

\* "if i == 0: continue": the first occurrence is the original task
loop_skips(i) == i = 0

\* a break on the rule's own count alone
loop_breaks_on_rule_count(g, max_count) ==
    g.rule.count # None /\ g.rule.count # 0 /\ g.count >= g.rule.count

\* the break of the loop: count >= max_count or (rule._count and count >=
\* rule._count)
loop_breaks(g, max_count) ==
    \/ g.count >= max_count
    \/ g.rule.count # None /\ g.rule.count # 0 /\ g.count >= g.rule.count

\* one turn of "for i, recurrence_dt in enumerate(dates)": the sequence is
\* exhausted, the first occurrence is skipped, the loop breaks, or an instance
\* and the copies of the seed's sub tasks and links are appended
RepeatedTaskCreatorLoop ==
    /\ gen.pc = "loop"
    /\ gen' = IF ~rrule_has_occurrence(gen.rule, gen.i) THEN [gen EXCEPT !.pc = "return"]
              ELSE IF loop_skips(gen.i) THEN [gen EXCEPT !.i = @ + 1]
              ELSE IF loop_breaks(gen, call.max_count) THEN [gen EXCEPT !.pc = "return"]
              ELSE loop_body(gen, pre.tasks[call.instance])
    /\ UNCHANGED <<db, call, pre, ret>>

\* the three bulk_create calls with no transaction around them: the batches
\* before the failing one stay written
bulk_creates_without_transaction(d, g, failed) ==
    [d EXCEPT
       !.tasks = IF failed = 0 \/ failed > 1 THEN BulkCreate(@, g.tasks_objects) ELSE @,
       !.task_backlogs = IF failed = 0 \/ failed > 2
                         THEN BulkCreate(@, g.task_backlogs_objects) ELSE @,
       !.task_resources = IF failed = 0
                          THEN BulkCreate(@, g.task_resources_objects) ELSE @]

\* "with transaction.atomic():" around the three bulk_create calls; failed is
\* the batch the database refuses (0: none), and a refusal rolls back the
\* batches written before it
atomic_bulk_creates(d, g, failed) ==
    IF failed = 0
    THEN [d EXCEPT
            !.tasks = BulkCreate(@, g.tasks_objects),
            !.task_backlogs = BulkCreate(@, g.task_backlogs_objects),
            !.task_resources = BulkCreate(@, g.task_resources_objects)]
    ELSE d

\* the end of repeated_task_creator: with commit the three lists are created in
\* one transaction, and the exception of a refused batch leaves the function;
\* otherwise the lists are returned
RepeatedTaskCreatorReturn ==
    /\ gen.pc = "return"
    /\ \E failed \in 0 .. 3 :
         /\ failed # 0 => call.commit
         /\ db' = IF call.commit THEN atomic_bulk_creates(db, gen, failed) ELSE db
         /\ ret' = IF failed = 0
                   THEN [tasks |-> gen.tasks_objects,
                         task_backlogs |-> gen.task_backlogs_objects,
                         task_resources |-> gen.task_resources_objects]
                   ELSE None
         /\ gen' = [gen EXCEPT !.pc = "done",
                               !.returned = IF failed = 0 THEN "dict" ELSE "raised"]
    /\ UNCHANGED <<call, pre>>

NextRecurrence ==
    RepeatedTaskCreatorBegin \/ RepeatedTaskCreatorLoop \/ RepeatedTaskCreatorReturn

SpecRecurrence == InitRecurrence /\ [][NextRecurrence]_vars

----------------------------------------------------------------------------
(* Recurrence generator: what a call returns *)

Min(S) == CHOOSE x \in S : \A y \in S : x <= y

Returned == call.op = "repeated_task_creator" /\ gen.pc = "done" /\ gen.returned = "dict"

Seed == pre.tasks[call.instance]

\* the generated tasks whose parent is the seed, in the order of generation
TopLevel(objects) == SelectSeq(objects, LAMBDA o : o.row.parent_task = call.instance)

\* the field of a task that the occurrences are laid on
Anchor(row) == IF call.by = "deadline" THEN row.deadline ELSE row.started

\* C7: repeated_task_creator generates at most max_count top-level instances
\* however long the occurrence sequence is, and stops reading an endless
\* sequence: the loop never looks past occurrence max_count + 1.
C7_AtMostMaxCountInstances ==
    (call.op = "repeated_task_creator" /\ gen.pc \in {"loop", "return", "done"}
        /\ gen.returned # "None") =>
        /\ Len(TopLevel(gen.tasks_objects)) <= call.max_count
        /\ gen.count <= call.max_count
        /\ gen.i <= call.max_count + 1
        /\ (gen.pc = "done" /\ gen.returned = "dict") =>
              Len(TopLevel(ret.tasks)) <= call.max_count

\* an endless rule, cut at max_count instances
C7_Witness ==
    /\ Returned
    /\ gen.rule.length = None /\ gen.rule.count = None
    /\ call.max_count > 1
    /\ Len(TopLevel(ret.tasks)) = call.max_count

\* a rule as the evaluator of a plain rule presents it: COUNT = c yields c
\* occurrences, no COUNT yields occurrences without end
PlainRule(rule) ==
    \/ rule.count = None /\ rule.length = None
    \/ rule.count # None /\ rule.length = rule.count

\* C8 as stated: the number of top-level instances is min(max_count, c) when the
\* rule carries its own count c and max_count when the rule is unbounded; the
\* first occurrence is skipped and not counted.
C8_CountIsMinOfMaxCountAndRuleCount ==
    (Returned /\ PlainRule(gen.rule)) =>
        Len(TopLevel(ret.tasks)) =
            IF gen.rule.count # None
            THEN Min({call.max_count, gen.rule.count})
            ELSE call.max_count

\* What the loop yields in general: the number of top-level instances is the least of max_count, the
\* rule's own count c if it has one, and the number of occurrences after the
\* first if the sequence ends (a rule with COUNT = c yields c occurrences, the
\* seed's among them, hence at most c - 1 instances); it is max_count for an
\* endless rule without count.  The first occurrence is skipped: every
\* instance lies after the seed.
C8_CountIsMinOfMaxCountRuleCountAndRest ==
    Returned =>
        /\ Len(TopLevel(ret.tasks)) =
              Min({call.max_count}
                  \cup (IF gen.rule.count # None THEN {gen.rule.count} ELSE {})
                  \cup (IF gen.rule.length # None THEN {gen.rule.length - 1} ELSE {}))
        /\ (gen.rule.count = None /\ gen.rule.length = None) =>
              Len(TopLevel(ret.tasks)) = call.max_count
        /\ \A j \in 1 .. Len(TopLevel(ret.tasks)) :
              Anchor(TopLevel(ret.tasks)[j].row) > gen.dtstart

\* a rule with COUNT = 2 under a larger max_count: one instance
C8_Witness ==
    /\ Returned
    /\ gen.rule.count = 2 /\ gen.rule.length = 2
    /\ call.max_count = 3
    /\ Len(TopLevel(ret.tasks)) = 1

\* seed.deadline - seed.started, or the estimated duration of a seed without
\* started
SeedTimeSpan ==
    IF Seed.started # None THEN Seed.deadline - Seed.started
    ELSE DurationSeconds(Seed.duration_unit, Seed.duration_estimate)

\* C9: with anchor "deadline" the i-th top-level instance has deadline = the
\* occurrence i steps after the seed's and started = deadline - timeSpan; with
\* anchor "started" its started is that occurrence (counted from the seed's
\* started) and deadline = started + timeSpan; so deadline - started of every
\* instance is the seed's timeSpan.  Seed Day 0 10:00-12:00, weekly,
\* max_count 3: exactly 3 instances, Day 7/14/21 10:00-12:00.
C9_InstanceDatesFollowOccurrences ==
    Returned =>
        LET top == TopLevel(ret.tasks) IN
        /\ \A i \in 1 .. Len(top) :
              /\ top[i].row.deadline - top[i].row.started = SeedTimeSpan
              /\ call.by = "deadline" =>
                    /\ top[i].row.deadline = Seed.deadline + i * gen.rule.period
                    /\ top[i].row.started = top[i].row.deadline - SeedTimeSpan
              /\ call.by = "started" =>
                    /\ top[i].row.started =
                          (Seed.deadline - SeedTimeSpan) + i * gen.rule.period
                    /\ top[i].row.deadline = top[i].row.started + SeedTimeSpan
        /\ (/\ Seed.started = Day0T10 /\ Seed.deadline = Day0T12
            /\ gen.rule = WeeklyForever /\ call.max_count = 3
            /\ call.by = "deadline") =>
              [i \in 1 .. Len(top) |-> <<top[i].row.started, top[i].row.deadline>>] =
                  << <<7 * SecondsPerDay + Day0T10, 7 * SecondsPerDay + Day0T12>>,
                     <<14 * SecondsPerDay + Day0T10, 14 * SecondsPerDay + Day0T12>>,
                     <<21 * SecondsPerDay + Day0T10, 21 * SecondsPerDay + Day0T12>> >>

\* the weekly seed of the example, and a seed whose span comes from its
\* estimated duration
C9_Witness ==
    /\ Returned
    /\ Seed.started = Day0T10 /\ Seed.deadline = Day0T12
    /\ gen.rule = WeeklyForever /\ call.max_count = 3 /\ call.by = "deadline"
    /\ Len(TopLevel(ret.tasks)) = 3

\* the generated task with identity id
Generated(id) ==
    LET j == CHOOSE j \in 1 .. Len(ret.tasks) : ret.tasks[j].id = id
    IN  ret.tasks[j].row

GeneratedIds == {ret.tasks[j].id : j \in 1 .. Len(ret.tasks)}

RECURSIVE GeneratedBelow(_)
GeneratedBelow(S) ==
    LET children == {id \in GeneratedIds : Generated(id).parent_task \in S}
    IN  IF children = {} THEN {} ELSE children \cup GeneratedBelow(children)

\* the generated links of one table that copy the links of task original onto
\* task clone: as many links to every target as the original has
LinksCopied(original_links, links_objects, field, original, clone) ==
    \A target \in {original_links[l][field] : l \in Objects(original_links)}
               \cup {links_objects[j].row[field] : j \in 1 .. Len(links_objects)} :
        Cardinality({j \in 1 .. Len(links_objects) :
                        /\ links_objects[j].row.task = clone
                        /\ links_objects[j].row[field] = target})
          = Cardinality({l \in Objects(original_links) :
                        /\ original_links[l].task = original
                        /\ original_links[l][field] = target})

\* f maps the seed's descendants one to one onto the tasks generated below top,
\* keeping every field but parent_task, which follows f, and the links
IsCloneOfBranch(f, top) ==
    LET below == Descendants(pre.tasks, call.instance)
        image(o) == IF o = call.instance THEN top ELSE f[o]
    IN  /\ \A o1, o2 \in below : f[o1] = f[o2] => o1 = o2
        /\ {f[o] : o \in below} = GeneratedBelow({top})
        /\ \A o \in below :
              Generated(f[o]) =
                  [pre.tasks[o] EXCEPT !.parent_task = image(pre.tasks[o].parent_task)]
        /\ \A o \in below \cup {call.instance} :
              /\ LinksCopied(pre.task_backlogs, ret.task_backlogs, "backlog",
                             o, image(o))
              /\ LinksCopied(pre.task_resources, ret.task_resources, "resource",
                             o, image(o))

\* C10: every top-level instance has beneath it a clone of the seed's whole
\* branch of (visible) descendants: as many tasks, in the same parent/child
\* shape, with copies of the backlog and resource links of each; every generated
\* task has an identity no original task and no other generated task has; the
\* call produces count x (1 + number of descendants of the seed) tasks.
C10_EveryInstanceCarriesACloneOfTheBranch ==
    Returned =>
        LET top == TopLevel(ret.tasks)
            below == Descendants(pre.tasks, call.instance)
        IN  /\ \A i \in 1 .. Len(top) :
                  \E f \in [below -> GeneratedBelow({top[i].id})] :
                      IsCloneOfBranch(f, top[i].id)
            /\ \A j, k \in 1 .. Len(ret.tasks) :
                  ret.tasks[j].id = ret.tasks[k].id => j = k
            /\ GeneratedIds \cap DOMAIN pre.tasks = {}
            /\ Len(ret.tasks) = Len(top) * (1 + Cardinality(below))
            /\ call.commit =>
                  \A j \in 1 .. Len(ret.tasks) :
                      /\ ret.tasks[j].id \in DOMAIN db.tasks
                      /\ db.tasks[ret.tasks[j].id] = ret.tasks[j].row

\* two instances over a seed with a child and a grandchild, links on both
\* levels beneath the seed
C10_Witness ==
    /\ Returned
    /\ Len(TopLevel(ret.tasks)) >= 2
    /\ \E c, g \in Descendants(pre.tasks, call.instance) :
          /\ pre.tasks[c].parent_task = call.instance
          /\ pre.tasks[g].parent_task = c
          /\ \E l \in Objects(pre.task_backlogs) : pre.task_backlogs[l].task = c
          /\ \E l \in Objects(pre.task_resources) : pre.task_resources[l].task = g
    /\ Len(ret.tasks) = 3 * Len(TopLevel(ret.tasks))
    /\ Len(ret.task_backlogs) = Len(TopLevel(ret.tasks))

\* C11: no task generated by repeated_task_creator carries a recurrence rule,
\* and every generated task that does not hang under another generated task
\* has the seed as its parent.
C11_NoGeneratedTaskCarriesARule ==
    Returned =>
        /\ \A j \in 1 .. Len(ret.tasks) : ret.tasks[j].row.rrule = NoRule
        /\ \A j \in 1 .. Len(ret.tasks) :
              \/ ret.tasks[j].row.parent_task = call.instance
              \/ ret.tasks[j].row.parent_task \in GeneratedIds

\* C11 for the top-level instances alone: new_task.rrule = None
C11_TopLevelInstancesCarryNoRule ==
    Returned =>
        \A j \in 1 .. Len(TopLevel(ret.tasks)) :
            TopLevel(ret.tasks)[j].row.rrule = NoRule

----------------------------------------------------------------------------
(* Subtree cloning: api/utils.py, api/views.py.  Of the tables the clone
   operations copy, the tasks and (for a project) the resource links are
   modelled; comments, sprints, types, statuses and requirements are not. *)

\* records: the objects to create, each with the id of its original, and the
\* source of new identities
NoRecords(uuid) == [tasks_to_create |-> <<>>, uuid |-> uuid, raised |-> ""]

\* records["tasks_to_create"].get(old): the id of the clone made of old
Created(records, old) ==
    LET made == {j \in 1 .. Len(records.tasks_to_create) :
                    records.tasks_to_create[j].old = old}
    IN  IF made = {} THEN None ELSE records.tasks_to_create[Max(made)].id

\* the visible tasks reached from seen through parent_task, seen included
RECURSIVE SubTaskClosure(_, _)
SubTaskClosure(tasks, seen) ==
    LET more == {t \in Objects(tasks) : tasks[t].parent_task \in seen} \ seen
    IN  IF more = {} THEN seen ELSE SubTaskClosure(tasks, seen \cup more)

StrictlyBelow(tasks, task) ==
    SubTaskClosure(tasks, {t \in Objects(tasks) : tasks[t].parent_task = task})

\* duplicate_task never returns when a task it reaches is its own sub task:
\* the recursion ends in RecursionError
duplicate_task_recurses_forever(tasks, task) ==
    \E t \in {task} \cup StrictlyBelow(tasks, task) : t \in StrictlyBelow(tasks, t)

\* duplicate_task: the task object itself gets a new pk, name and order and the
\* custom attributes; a sub task is hung under the clone of its parent; every
\* other field, dependency and predecessor among them, stays as it was
RECURSIVE duplicate_task(_, _, _, _, _, _, _)
RECURSIVE DuplicateSubTasks(_, _, _, _, _)
duplicate_task(tasks, task, order, custom_attrs, records, clone_sub_tasks, subTask) ==
    LET id == records.uuid
        row == [tasks[task] EXCEPT
                  !.order = order,
                  !.client = custom_attrs.client,
                  !.parent_task = IF subTask THEN Created(records, @) ELSE @]
        recorded == [records EXCEPT
                       !.tasks_to_create = Append(@, [old |-> task, id |-> id, row |-> row]),
                       !.uuid = @ + 1]
    IN  IF clone_sub_tasks
        THEN DuplicateSubTasks(tasks, ChildrenOf(tasks, task), 1, custom_attrs, recorded)
        ELSE recorded

\* for sub_task in Task.objects.filter(parent_task_id=old_task_id)
DuplicateSubTasks(tasks, sub_tasks, k, custom_attrs, records) ==
    IF k > Len(sub_tasks) THEN records
    ELSE DuplicateSubTasks(tasks, sub_tasks, k + 1, custom_attrs,
             duplicate_task(tasks, sub_tasks[k], tasks[sub_tasks[k]].order,
                            custom_attrs, records, TRUE, TRUE))

\* a date of a cloned task: as far from the start of the new project as the
\* original is from the start of the old one, when all three are set
MovedDate(date, attrs) ==
    IF attrs.old_project_start_date # None /\ attrs.new_project_started # None
       /\ date # None
    THEN attrs.new_project_started + (date - attrs.old_project_start_date)
    ELSE date

\* duplicate_task_v2_for_project: a deep copy with a new pk under the new
\* project; parent_task is the clone itself, the clone already recorded, or a
\* clone made now; a dependency or predecessor that is another task reads the
\* local variable dependency (predecessor) before it is assigned
RECURSIVE duplicate_task_v2_for_project(_, _, _, _)
duplicate_task_v2_for_project(records, tasks, task, attrs) ==
    LET old == tasks[task]
        id == records.uuid
        taken == [records EXCEPT !.uuid = @ + 1]
        with_parent ==
            IF old.parent_task = None \/ old.parent_task = task
               \/ Created(taken, old.parent_task) # None
            THEN taken
            ELSE duplicate_task_v2_for_project(taken, tasks, old.parent_task, attrs)
        unbound == \/ old.dependency # None /\ old.dependency # task
                   \/ old.predecessor # None /\ old.predecessor # task
        row == [old EXCEPT
                  !.project = attrs.new_project,
                  !._template = attrs._template,
                  !.client = attrs.client,
                  !.started = MovedDate(@, attrs),
                  !.deadline = MovedDate(@, attrs),
                  !.parent_task = IF @ = None THEN None
                                  ELSE IF @ = task THEN id
                                  ELSE Created(with_parent, @),
                  !.dependency = IF @ = None THEN None ELSE id,
                  !.predecessor = IF @ = None THEN None ELSE id]
    IN  IF with_parent.raised # "" THEN with_parent
        ELSE IF unbound THEN [with_parent EXCEPT !.raised = "UnboundLocalError"]
        ELSE [with_parent EXCEPT
                !.tasks_to_create = Append(@, [old |-> task, id |-> id, row |-> row])]

\* "template_objects" if not _template else "objects"
SourceObjects(table, template) ==
    {id \in DOMAIN table : ~table[id].is_deleted /\ table[id]._template = ~template}

\* for task in getattr(Task, manager).filter(project=project), skipping the
\* tasks cloned already
RECURSIVE DuplicateProjectTasks(_, _, _, _, _)
DuplicateProjectTasks(records, tasks, queryset, k, attrs) ==
    IF k > Len(queryset) \/ records.raised # "" THEN records
    ELSE DuplicateProjectTasks(
             IF Created(records, queryset[k]) # None THEN records
             ELSE duplicate_task_v2_for_project(records, tasks, queryset[k], attrs),
             tasks, queryset, k + 1, attrs)

\* for task_resource in getattr(TaskResource, manager).filter(
\* task__project=project): records["tasks_to_create"][task id] raises KeyError
\* for a link of a task that was not cloned
DuplicateProjectResources(records, d, project, attrs) ==
    LET links == SortedSeq({l \in SourceObjects(d.task_resources, attrs._template) :
                               d.tasks[d.task_resources[l].task].project = project})
    IN  IF records.raised # "" THEN [task_resources |-> <<>>, raised |-> records.raised]
        ELSE IF \E j \in 1 .. Len(links) :
                    Created(records, d.task_resources[links[j]].task) = None
        THEN [task_resources |-> <<>>, raised |-> "KeyError"]
        ELSE [task_resources |->
                 [j \in 1 .. Len(links) |->
                     [id |-> records.uuid + j - 1,
                      row |-> [d.task_resources[links[j]] EXCEPT
                                 !.task = Created(records, @),
                                 !._template = attrs._template]]],
              raised |-> ""]

\* the tasks are created with their three references nullified; the rows the
\* manager of the new project's kind returns get them back by bulk_update
CreateAndLinkTasks(tasks, tasks_to_create) ==
    [i \in DOMAIN tasks \cup {tasks_to_create[j].id : j \in 1 .. Len(tasks_to_create)} |->
        IF i \in DOMAIN tasks THEN tasks[i]
        ELSE LET row == tasks_to_create[CHOOSE j \in 1 .. Len(tasks_to_create) :
                                           tasks_to_create[j].id = i].row
             IN  IF row.is_deleted
                 THEN [row EXCEPT !.parent_task = None, !.dependency = None,
                                  !.predecessor = None]
                 ELSE row]

----------------------------------------------------------------------------
(* Subtree cloning: the stores it is tried on *)

\* number of tasks of the project
NumClone == 3

CloneIds == 1 .. NumClone

\* the id the new project gets
NewProject == 2

\* a parent is an earlier task, the task itself or none
CloneParents ==
    {ps \in [CloneIds -> CloneIds \cup {None}] :
        \A i \in CloneIds : ps[i] = None \/ ps[i] <= i}

\* the first tasks carry a dependency, the last one a predecessor
CloneReferences == [CloneIds -> CloneIds \cup {None}]

InitClone ==
    /\ \E ps \in CloneParents, rs \in CloneReferences, flag \in Flags,
          linked \in BOOLEAN :
         db = [EmptyDb EXCEPT
                 !.tasks = [i \in CloneIds |->
                              [Task(ps[i], 1, 1, i,
                                    i = NumClone /\ flag = "deleted",
                                    i = NumClone /\ flag = "template")
                                 EXCEPT !.started = IF i = 1 THEN 60 ELSE None,
                                        !.dependency = IF i < NumClone THEN rs[i] ELSE None,
                                        !.predecessor = IF i = NumClone THEN rs[i] ELSE None]],
                 !.task_resources = IF linked THEN <<TaskResource(NumClone, 1)>>
                                    ELSE <<>>]
              @@ [projects |-> <<[client |-> 1, _template |-> FALSE]>>]
    /\ call = NoCall
    /\ pre = EmptyDb
    /\ ret = None
    /\ gen = NoGen

\* CloneTaskAPIView.post: duplicate_task on a task the request may see, the
\* three batch writes of the clones (tasks, comments, sprint links), then the
\* rebase of the clone's siblings.  failed is the batch the database refuses
\* (0: none); nothing encloses the writes in a transaction, so the batches
\* written before the refused one stay.
CloneTask ==
    /\ call.op = "none"
    /\ \E instance \in Objects(db.tasks), clone_sub_tasks \in BOOLEAN,
          rebase \in BOOLEAN, order \in {1}, failed \in 0 .. 3 :
         LET custom_attrs == [client |-> db.tasks[instance].client]
             raises == clone_sub_tasks
                       /\ duplicate_task_recurses_forever(db.tasks, instance)
             records == duplicate_task(db.tasks, instance, order, custom_attrs,
                                       NoRecords(MaxId(db) + 1), clone_sub_tasks, FALSE)
             created == BulkCreate(db.tasks, records.tasks_to_create)
             id == Created(records, instance)
         IN  IF raises
             THEN /\ failed = 0
                  /\ db' = db
                  /\ ret' = None
                  /\ call' = [op |-> "clone_task", instance |-> instance,
                              clone_sub_tasks |-> clone_sub_tasks, rebase |-> rebase,
                              raised |-> "RecursionError", tasks_to_create |-> <<>>]
             ELSE IF failed # 0
             THEN /\ db' = IF failed = 1 THEN db ELSE [db EXCEPT !.tasks = created]
                  /\ ret' = None
                  /\ call' = [op |-> "clone_task", instance |-> instance,
                              clone_sub_tasks |-> clone_sub_tasks, rebase |-> rebase,
                              raised |-> "DatabaseError",
                              tasks_to_create |-> records.tasks_to_create]
             ELSE /\ \E next \in IF rebase
                                 THEN next_tasks(created, id, order,
                                                 created[id].parent_task,
                                                 created[id].project, custom_attrs.client)
                                 ELSE {<<>>} :
                        db' = [db EXCEPT !.tasks = rebase_tasks_order(created, next, order)]
                  /\ ret' = id
                  /\ call' = [op |-> "clone_task", instance |-> instance,
                              clone_sub_tasks |-> clone_sub_tasks, rebase |-> rebase,
                              raised |-> "",
                              tasks_to_create |-> records.tasks_to_create]
    /\ pre' = db
    /\ UNCHANGED gen

\* duplicate_project, as far as the project, its tasks and resource links go:
\* the copy of the project is saved first, the clones are collected, then
\* written; an exception while they are collected ends the call before any of
\* these batch writes, with the new project already stored
DuplicateProject ==
    /\ call.op = "none"
    /\ \E project \in {1}, template \in BOOLEAN,
          starts \in {<<None, None>>, <<60, 90>>} :
         \E queryset \in Permutations_({t \in SourceObjects(db.tasks, template) :
                                           db.tasks[t].project = project}) :
            LET attrs == [new_project |-> NewProject, _template |-> template,
                          client |-> 2,
                          old_project_start_date |-> starts[1],
                          new_project_started |-> starts[2]]
                new_project == [db.projects[project] EXCEPT !._template = template,
                                                            !.client = attrs.client]
                saved == [db EXCEPT !.projects = Append(@, new_project)]
                records == DuplicateProjectTasks(NoRecords(MaxId(db) + 1), db.tasks,
                                                 queryset, 1, attrs)
                links == DuplicateProjectResources(records, db, project, attrs)
            IN  /\ db' = IF links.raised # "" THEN saved
                         ELSE [saved EXCEPT
                                 !.tasks = CreateAndLinkTasks(@, records.tasks_to_create),
                                 !.task_resources = BulkCreate(@, links.task_resources)]
                /\ ret' = None
                /\ call' = [op |-> "duplicate_project", project |-> project,
                            _template |-> template, raised |-> links.raised,
                            tasks_to_create |-> IF links.raised # "" THEN <<>>
                                                ELSE records.tasks_to_create]
    /\ pre' = db
    /\ UNCHANGED gen

NextClone == CloneTask \/ DuplicateProject

SpecClone == InitClone /\ [][NextClone]_vars

----------------------------------------------------------------------------
(* Subtree cloning: what a call leaves behind *)

Cloned == call.op \in {"clone_task", "duplicate_project"} /\ call.raised = ""

\* the original tasks the call has cloned
Originals == {call.tasks_to_create[j].old : j \in 1 .. Len(call.tasks_to_create)}

\* the clones made of the original task t
ClonesOf(t) ==
    {call.tasks_to_create[j].id :
        j \in {k \in 1 .. Len(call.tasks_to_create) : call.tasks_to_create[k].old = t}}

References == {"parent_task", "dependency", "predecessor"}

\* C12: the clone of a task whose dependency (parent_task, predecessor) is the
\* task itself has the clone in that field, not the original task and not
\* another clone.
C12_SelfReferencePointsToTheClone ==
    Cloned =>
        \A t \in Originals : \A c \in ClonesOf(t) : \A field \in References :
            pre.tasks[t][field] = t => db.tasks[c][field] = c

\* C12 for duplicate_project alone
C12_ProjectCloneKeepsSelfReference ==
    (Cloned /\ call.op = "duplicate_project") => C12_SelfReferencePointsToTheClone

\* the tasks a call is to clone
ToClone ==
    IF call.op = "clone_task"
    THEN {call.instance} \cup (IF call.clone_sub_tasks
                               THEN StrictlyBelow(pre.tasks, call.instance)
                               ELSE {})
    ELSE {t \in SourceObjects(pre.tasks, call._template) :
             pre.tasks[t].project = call.project}

\* a store of visible tasks in which no task is its own parent and every
\* resource link belongs to a task that is to be cloned
PlainCloneStore ==
    /\ \A t \in DOMAIN pre.tasks : t \in Objects(pre.tasks)
    /\ \A t \in DOMAIN pre.tasks : pre.tasks[t].parent_task # t
    /\ \A l \in DOMAIN pre.task_resources : pre.task_resources[l].task \in ToClone

\* C13: when a call clones t and u and t names u as parent_task, dependency or
\* predecessor, the clone of t names the clone of u, whichever of the two is
\* cloned first; the call completes without error and every task that was to
\* be cloned has exactly one clone.  Calls in which the database refuses a
\* batch write are left aside.
C13_ReferencesFollowTheClones ==
    (/\ call.op \in {"clone_task", "duplicate_project"} /\ PlainCloneStore
     /\ call.raised # "DatabaseError") =>
        /\ call.raised = ""
        /\ \A t \in ToClone : Cardinality(ClonesOf(t)) = 1
        /\ \A t \in ToClone : \A field \in References :
              LET u == pre.tasks[t][field] IN
              (u \in ToClone /\ u # t) =>
                  \A c \in ClonesOf(t) : db.tasks[c][field] \in ClonesOf(u)

\* C13 for parent_task, on tasks without dependency and predecessor
C13_ParentTaskFollowsTheClones ==
    (/\ call.op \in {"clone_task", "duplicate_project"} /\ PlainCloneStore
     /\ \A t \in DOMAIN pre.tasks :
           pre.tasks[t].dependency = None /\ pre.tasks[t].predecessor = None) =>
        C13_ReferencesFollowTheClones

----------------------------------------------------------------------------
(* Dotted order labels: models.py.  A label is the sequence of its segments;
   the code joins their decimal numerals with "." *)

\* Task.get_ancestors: the recursive query seeded with the task's own row,
\* each step adding the parent of the row before, whatever its flags
RECURSIVE Task_get_ancestors(_, _)
Task_get_ancestors(tasks, id) ==
    <<id>> \o (IF tasks[id].parent_task = None THEN <<>>
               ELSE Task_get_ancestors(tasks, tasks[id].parent_task))

\* TaskStatus.get_ancestors: the seed and every step keep only rows with
\* is_deleted = false and _template = false
RECURSIVE TaskStatus_get_ancestors(_, _)
TaskStatus_get_ancestors(statuses, id) ==
    IF statuses[id].is_deleted \/ statuses[id]._template THEN <<>>
    ELSE <<id>> \o (IF statuses[id].parent = None THEN <<>>
                    ELSE TaskStatus_get_ancestors(statuses, statuses[id].parent))

\* orders.reverse()
Reverse(seq) == [i \in 1 .. Len(seq) |-> seq[Len(seq) + 1 - i]]

\* orders[:-1]
DropLast(seq) == IF seq = <<>> THEN <<>> ELSE SubSeq(seq, 1, Len(seq) - 1)

\* a label that drops the first of the reversed orders as well
get_task_level_without_root(tasks, id) ==
    LET ancestors == Task_get_ancestors(tasks, id)
        orders == [i \in 1 .. Len(ancestors) |-> tasks[ancestors[i]].order]
    IN  DropFirst(DropLast(Reverse(orders)))

\* Task.get_task_level
get_task_level(tasks, id) ==
    LET ancestors == Task_get_ancestors(tasks, id)
        orders == [i \in 1 .. Len(ancestors) |-> tasks[ancestors[i]].order]
    IN  DropLast(Reverse(orders))

\* TaskStatus.get_full_order: the join of orders[:-1] when it has more than one
\* element, else its only element or ''
get_full_order(statuses, id) ==
    LET ancestors == TaskStatus_get_ancestors(statuses, id)
        orders == [i \in 1 .. Len(ancestors) |-> statuses[ancestors[i]].order]
        label == DropLast(Reverse(orders))
    IN  IF Len(label) > 1 THEN label
        ELSE IF label = <<>> THEN <<>> ELSE <<label[1]>>

TaskGetTaskLevel ==
    /\ call.op = "none"
    /\ \E id \in DOMAIN db.tasks :
         /\ call' = [op |-> "get_full_order", kind |-> "Task", instance |-> id]
         /\ ret' = get_task_level(db.tasks, id)
    /\ pre' = db
    /\ UNCHANGED <<db, gen>>

TaskStatusGetFullOrder ==
    /\ call.op = "none"
    /\ \E id \in DOMAIN db.task_statuses :
         /\ call' = [op |-> "get_full_order", kind |-> "TaskStatus", instance |-> id]
         /\ ret' = get_full_order(db.task_statuses, id)
    /\ pre' = db
    /\ UNCHANGED <<db, gen>>

NextLabel == TaskGetTaskLevel \/ TaskStatusGetFullOrder

SpecLabel == InitBranch /\ [][NextLabel]_vars

\* the ancestors of node n, from the root of its tree down to its parent
RECURSIVE AncestorsFromRoot(_)
AncestorsFromRoot(n) ==
    LET parent == ParentOf(TableOf(db)[n])
    IN  IF parent = None THEN <<>> ELSE Append(AncestorsFromRoot(parent), parent)

OrdersOf(nodes) == [i \in 1 .. Len(nodes) |-> TableOf(db)[nodes[i]].order]

IsVisible(n) == ~TableOf(db)[n].is_deleted /\ ~TableOf(db)[n]._template

\* the ancestors of n above which no tombstoned or template ancestor lies
\* between them and n
RECURSIVE VisibleAncestorsFromTop(_)
VisibleAncestorsFromTop(n) ==
    LET parent == ParentOf(TableOf(db)[n])
    IN  IF parent = None \/ ~IsVisible(parent) THEN <<>>
        ELSE Append(VisibleAncestorsFromTop(parent), parent)

\* C14 as stated: for a node with d ancestors besides the root of its tree the
\* label has exactly d segments, the orders of those ancestors from the
\* root-adjacent one down to the parent; it holds neither the node's own order
\* nor the root's (empty for a root and for a direct child of a root).
C14_LabelOmitsRootAndNode ==
    call.op = "get_full_order" =>
        ret = DropFirst(OrdersOf(AncestorsFromRoot(call.instance)))

\* C14 amended: the label of a task has one segment for every ancestor, the
\* root of its tree included: their orders from the root down to the task's
\* parent, and not the task's own order; it is empty for a root only.  The
\* label of a task status is built likewise from the non-tombstoned,
\* non-template ancestors that lie below the nearest tombstoned or template
\* one, and is empty for a status that is itself tombstoned or a template.
C14_LabelListsAncestorsFromRoot ==
    call.op = "get_full_order" =>
        /\ call.kind = "Task" => ret = OrdersOf(AncestorsFromRoot(call.instance))
        /\ call.kind = "TaskStatus" =>
              ret = IF IsVisible(call.instance)
                    THEN OrdersOf(VisibleAncestorsFromTop(call.instance))
                    ELSE <<>>
        /\ (\A n \in DOMAIN TableOf(db) : IsVisible(n)) =>
              /\ Len(ret) = Len(AncestorsFromRoot(call.instance))
              /\ (ret = <<>>) <=> (ParentOf(TableOf(db)[call.instance]) = None)

\* a node two levels below its root: two segments, the root's order first
C14_Witness ==
    /\ call.op = "get_full_order"
    /\ \A n \in DOMAIN TableOf(db) : IsVisible(n)
    /\ Len(AncestorsFromRoot(call.instance)) = 2
    /\ Len(ret) = 2
    /\ ret[1] = TableOf(db)[AncestorsFromRoot(call.instance)[1]].order
    /\ ParentOf(TableOf(db)[AncestorsFromRoot(call.instance)[1]]) = None

----------------------------------------------------------------------------
(* Ordered listing of the statuses of a project: models.py *)

\* (order, id) pairs compared as rows: by order, then by id
PairLess(a, b) == a[1] < b[1] \/ (a[1] = b[1] /\ a[2] < b[2])

\* arrays compared element by element, a proper prefix first
RECURSIVE PathLess(_, _)
PathLess(p, q) ==
    IF p = <<>> THEN q # <<>>
    ELSE IF q = <<>> THEN FALSE
    ELSE IF Head(p) = Head(q) THEN PathLess(Tail(p), Tail(q))
    ELSE PairLess(Head(p), Head(q))

\* the recursive member: the visible children of the rows of one level, each
\* with the path of its parent extended by its own (order, id)
RECURSIVE ListingRows(_, _)
ListingRows(statuses, level) ==
    IF level = {} THEN {}
    ELSE LET joined == {rn \in level \X DOMAIN statuses :
                          /\ statuses[rn[2]].parent = rn[1].id
                          /\ ~statuses[rn[2]].is_deleted
                          /\ ~statuses[rn[2]]._template}
             children == {[id |-> rn[2],
                           path |-> Append(rn[1].path,
                                           <<statuses[rn[2]].order, rn[2]>>)] :
                             rn \in joined}
         IN  level \cup ListingRows(statuses, children)

\* name ILIKE '%search_term%' on names of one letter
ILike(name, search_term) == search_term = "" \/ name = search_term

\* the rows of the query before ORDER BY: seeded with the visible parentless
\* statuses of the project, filtered by name at the end
ListingOf(statuses, project_id, search_term) ==
    LET seeds == {[id |-> n, path |-> << <<statuses[n].order, n>> >>] :
                     n \in {m \in DOMAIN statuses :
                              /\ statuses[m].parent = None
                              /\ statuses[m].project = project_id
                              /\ ~statuses[m]._template
                              /\ ~statuses[m].is_deleted}}
    IN  {r \in ListingRows(statuses, seeds) : ILike(statuses[r.id].name, search_term)}

\* ORDER BY path
OrderByPath(rows) ==
    CHOOSE f \in Permutations_(rows) :
        \A i, j \in 1 .. Cardinality(rows) : i < j => PathLess(f[i].path, f[j].path)

\* a listing ordered by depth first and by path within one depth
get_all_task_status_by_depth(statuses, project_id, search_term) ==
    LET rows == ListingOf(statuses, project_id, search_term)
        sorted == CHOOSE f \in Permutations_(rows) :
                     \A i, j \in 1 .. Cardinality(rows) :
                        i < j => \/ Len(f[i].path) < Len(f[j].path)
                                 \/ /\ Len(f[i].path) = Len(f[j].path)
                                    /\ PathLess(f[i].path, f[j].path)
    IN  [i \in 1 .. Len(sorted) |-> sorted[i].id]

\* TaskStatus.get_all_task_status_of_a_project
get_all_task_status_of_a_project(statuses, project_id, search_term) ==
    LET sorted == OrderByPath(ListingOf(statuses, project_id, search_term))
    IN  [i \in 1 .. Len(sorted) |-> sorted[i].id]

----------------------------------------------------------------------------
(* Ordered listing: the trees it is tried on *)

\* statuses of the store a listing is taken of
NumListed == 4

ListedIds == 1 .. NumListed

\* how one status of the store differs from the others
ListedVariants == {"same", "deleted", "template", "other_project", "other_name"}

ListedStatus(parent, order, v) ==
    [parent |-> parent, project |-> IF v = "other_project" THEN 2 ELSE 1,
     client |-> 1, order |-> order, is_deleted |-> v = "deleted",
     _template |-> v = "template", final_stage |-> FALSE,
     name |-> IF v = "other_name" THEN "b" ELSE "a"]

InitListing ==
    /\ \E ps \in Forests(ListedIds), os \in [ListedIds -> 1 .. 2],
          s \in ListedIds, v \in ListedVariants :
         db = [EmptyDb EXCEPT
                 !.task_statuses =
                     [i \in ListedIds |->
                        ListedStatus(ps[i], os[i], IF i = s THEN v ELSE "same")]]
    /\ call = NoCall
    /\ pre = EmptyDb
    /\ ret = None
    /\ gen = NoGen

GetAllTaskStatusOfAProject ==
    /\ call.op = "none"
    /\ \E project_id \in Projects, search_term \in {"", "b"} :
         /\ call' = [op |-> "get_all_task_status_of_a_project", kind |-> "TaskStatus",
                     project |-> project_id, search_term |-> search_term]
         /\ ret' = get_all_task_status_of_a_project(db.task_statuses, project_id,
                                                    search_term)
    /\ pre' = db
    /\ UNCHANGED <<db, gen>>

NextListing == GetAllTaskStatusOfAProject

SpecListing == InitListing /\ [][NextListing]_vars

----------------------------------------------------------------------------
(* Ordered listing: what it returns *)

Listed == call.op = "get_all_task_status_of_a_project"

ListedSet == {ret[i] : i \in DOMAIN ret}

PositionOf(n) == CHOOSE i \in DOMAIN ret : ret[i] = n

VisibleStatus(n) ==
    /\ ~pre.task_statuses[n].is_deleted
    /\ ~pre.task_statuses[n]._template

\* n and all its ancestors are visible
RECURSIVE VisibleChain(_)
VisibleChain(n) ==
    /\ VisibleStatus(n)
    /\ \/ pre.task_statuses[n].parent = None
       \/ VisibleChain(pre.task_statuses[n].parent)

RECURSIVE RootOf(_)
RootOf(n) ==
    IF pre.task_statuses[n].parent = None THEN n
    ELSE RootOf(pre.task_statuses[n].parent)

RECURSIVE IsBelow(_, _)
IsBelow(n, a) ==
    /\ pre.task_statuses[n].parent # None
    /\ \/ pre.task_statuses[n].parent = a
       \/ IsBelow(pre.task_statuses[n].parent, a)

Matches(n) == ILike(pre.task_statuses[n].name, call.search_term)

\* the order of the returned nodes: after the parent, siblings ascending by
\* (order, id), a whole subtree before the next sibling
ListedInPathOrder ==
    /\ \A i, j \in DOMAIN ret : i # j => ret[i] # ret[j]
    /\ \A n \in ListedSet :
         pre.task_statuses[n].parent \in ListedSet =>
            PositionOf(pre.task_statuses[n].parent) < PositionOf(n)
    /\ \A n, m \in ListedSet :
         /\ n # m
         /\ pre.task_statuses[n].parent = pre.task_statuses[m].parent
         /\ PairLess(<<pre.task_statuses[n].order, n>>, <<pre.task_statuses[m].order, m>>)
         => /\ PositionOf(n) < PositionOf(m)
            /\ \A d \in ListedSet : IsBelow(d, n) => PositionOf(d) < PositionOf(m)

\* C15: the listing of a project holds exactly the visible statuses of that
\* project that are reachable from a parentless status of the project through
\* visible statuses only (and match the search term), in the order of their
\* root-to-node paths: after the parent, siblings ascending by (order, id), a
\* whole subtree before the next sibling.
C15_ListingIsTheProjectsReachableStatusesByPath ==
    Listed =>
       /\ ListedSet = {n \in DOMAIN pre.task_statuses :
                          /\ pre.task_statuses[n].project = call.project
                          /\ pre.task_statuses[RootOf(n)].project = call.project
                          /\ VisibleChain(n)
                          /\ Matches(n)}
       /\ ListedInPathOrder

\* what the query does return: the visible chains below the parentless
\* statuses of the project, whatever project the statuses below belong to
C15_ListingIsBelowTheProjectsRootsByPath ==
    Listed =>
       /\ ListedSet = {n \in DOMAIN pre.task_statuses :
                          /\ pre.task_statuses[RootOf(n)].project = call.project
                          /\ VisibleChain(n)
                          /\ Matches(n)}
       /\ ListedInPathOrder

\* a parentless status with order 1, a parentless status with order 2 and a
\* child of the first, all three in the listing
AcrossDepths(a, b, c) ==
    /\ {a, b, c} \subseteq ListedSet
    /\ pre.task_statuses[a].parent = None /\ pre.task_statuses[a].order = 1
    /\ pre.task_statuses[b].parent = None /\ pre.task_statuses[b].order = 2
    /\ pre.task_statuses[c].parent = a

\* C16 as stated: in the listing, a status at depth 1 with order 2 comes before
\* a status at depth 2 in the subtree of the depth-1 status with order 1.
C16_SecondRootSortsBeforeSubtreeOfFirst ==
    Listed =>
       \A a, b, c \in DOMAIN pre.task_statuses :
          AcrossDepths(a, b, c) => PositionOf(b) < PositionOf(c)

\* C16: in the listing, a status at depth 2 in the subtree of the depth-1
\* status with order 1 comes before the depth-1 status with order 2 (the path
\* of the former starts with the (1, id) pair of its root).
C16_SubtreeOfFirstSortsBeforeSecondRoot ==
    Listed =>
       \A a, b, c \in DOMAIN pre.task_statuses :
          AcrossDepths(a, b, c) => PositionOf(c) < PositionOf(b)

C16_Witness ==
    /\ Listed
    /\ \E a, b, c \in DOMAIN pre.task_statuses :
          AcrossDepths(a, b, c) /\ PositionOf(a) < PositionOf(c)
                                /\ PositionOf(c) < PositionOf(b)

----------------------------------------------------------------------------
(* Default order on save: models.py pre_save hooks *)

\* pre_save hook of Task: unless the caller set no_order_signal, a task saved
\* with order 0 gets 1 + the largest order of the other visible tasks of its
\* project
set_order_for_task_and_status_date(tasks, id, instance, no_order_signal) ==
    IF no_order_signal THEN instance
    ELSE IF instance.order = 0
    THEN LET others == {i \in Objects(tasks) \ {id} :
                            tasks[i].project = instance.project}
             order == IF others = {} THEN 0
                      ELSE Max({tasks[i].order : i \in others})
         IN  [instance EXCEPT !.order = instance.order + order + 1]
    ELSE instance

\* pre_save hook of Backlog: the same over the other visible backlogs of the hlr
set_order_for_backlog(backlogs, id, instance, no_order_signal) ==
    IF no_order_signal THEN instance
    ELSE IF instance.order = 0
    THEN LET others == {i \in Objects(backlogs) \ {id} :
                            backlogs[i].hlr = instance.hlr}
             order == IF others = {} THEN 0
                      ELSE Max({backlogs[i].order : i \in others})
         IN  [instance EXCEPT !.order = instance.order + order + 1]
    ELSE instance

\* id of a row that is saved for the first time
NewId == NumOthers + 2

\* the rows a save can be about: a visible row of the table, or a new row
Saveable(table) == Objects(table) \cup {NewId}

\* the table with the row id written
Written(table, id, row) ==
    [i \in DOMAIN table \cup {id} |-> IF i = id THEN row ELSE table[i]]

\* Task.save(): the instance is the stored row (or a new sibling of row 1) with
\* the order the caller gave it
SaveTask ==
    /\ call.op = "none"
    /\ db.tasks # NoRows
    /\ \E id \in Saveable(db.tasks), order \in Orders, no_order_signal \in BOOLEAN :
         LET instance == [(IF id = NewId THEN VariantTask("same", 0) ELSE db.tasks[id])
                             EXCEPT !.order = order]
             saved == set_order_for_task_and_status_date(db.tasks, id, instance,
                                                         no_order_signal)
         IN  /\ db' = [db EXCEPT !.tasks = Written(db.tasks, id, saved)]
             /\ call' = [op |-> "save", kind |-> "Task", instance |-> id,
                         order |-> order, no_order_signal |-> no_order_signal]
    /\ pre' = db
    /\ ret' = None
    /\ UNCHANGED gen

\* TaskStatus.save()
SaveTaskStatus ==
    /\ call.op = "none"
    /\ db.task_statuses # NoRows
    /\ \E id \in Saveable(db.task_statuses), order \in Orders :
         LET instance == [(IF id = NewId THEN VariantTaskStatus("same", 0)
                           ELSE db.task_statuses[id]) EXCEPT !.order = order]
             saved == set_order_for_task_status(db.task_statuses, id, instance)
         IN  /\ db' = [db EXCEPT !.task_statuses =
                          Written(db.task_statuses, id, saved)]
             /\ call' = [op |-> "save", kind |-> "TaskStatus", instance |-> id,
                         order |-> order, no_order_signal |-> FALSE]
    /\ pre' = db
    /\ ret' = None
    /\ UNCHANGED gen

\* Backlog.save()
SaveBacklog ==
    /\ call.op = "none"
    /\ db.backlogs # NoRows
    /\ \E id \in Saveable(db.backlogs), order \in Orders, no_order_signal \in BOOLEAN :
         LET instance == [(IF id = NewId THEN VariantBacklog("same", 0)
                           ELSE db.backlogs[id]) EXCEPT !.order = order]
             saved == set_order_for_backlog(db.backlogs, id, instance, no_order_signal)
         IN  /\ db' = [db EXCEPT !.backlogs = Written(db.backlogs, id, saved)]
             /\ call' = [op |-> "save", kind |-> "Backlog", instance |-> id,
                         order |-> order, no_order_signal |-> no_order_signal]
    /\ pre' = db
    /\ ret' = None
    /\ UNCHANGED gen

NextSave == SaveTask \/ SaveTaskStatus \/ SaveBacklog

SpecSave == InitRebase /\ [][NextSave]_vars

SavedUnset == call.op = "save" /\ call.order = 0 /\ ~call.no_order_signal

SavedRow == TableOf(db)[call.instance]

\* the other visible rows of the sibling scope of the saved row: same project
\* (hlr), parent and tenant
SiblingScope ==
    {i \in Objects(TableOf(pre)) \ {call.instance} :
        /\ ScopeOf(TableOf(pre)[i]) = ScopeOf(SavedRow)
        /\ ParentOf(TableOf(pre)[i]) = ParentOf(SavedRow)
        /\ TableOf(pre)[i].client = SavedRow.client}

\* the other visible rows of the project (hlr) of the saved row
ProjectScope ==
    {i \in Objects(TableOf(pre)) \ {call.instance} :
        ScopeOf(TableOf(pre)[i]) = ScopeOf(SavedRow)}

OneAboveMax(S) == IF S = {} THEN 1 ELSE 1 + Max({TableOf(pre)[i].order : i \in S})

\* C17: a task, status or backlog saved with order 0 gets 1 + the largest
\* order among the other visible rows of its sibling scope (same project or
\* hlr, same parent, same tenant), and 1 when it is the first of the scope;
\* rows of another parent or tenant do not influence the value.
C17_DefaultOrderIsOneAboveSiblings ==
    SavedUnset => SavedRow.order = OneAboveMax(SiblingScope)

\* what the hooks compute: 1 + the largest order among the other visible rows
\* of the whole project (hlr), whatever their parent or tenant
C17_DefaultOrderIsOneAboveProject ==
    SavedUnset => SavedRow.order = OneAboveMax(ProjectScope)

----------------------------------------------------------------------------
(* Task update with changed dates: api/views.py *)

\* the difference handed to the rebase: new_instance.<field> - instance.<field>
rebase_difference_backwards(new, old) == old - new

rebase_difference(new, old) == new - old

\* the validations of perform_update in their order; "" when all pass.  The
\* conflict queries run only for a changed field and only without rebase.  The
\* project of the tasks has no start date and the tasks no dependency, so the
\* validations against those two pass.
perform_update_rejects(tasks, id, started, deadline, rebase, client) ==
    IF started # None /\ deadline # None /\ started > deadline
    THEN "Started Date Must Be Less Then Deadline Date!"
    ELSE IF /\ started # tasks[id].started /\ ~rebase
            /\ get_child_branch_conflict_started_tasks(tasks, id, started, client) # <<>>
    THEN "Can't Rebase In Past"
    ELSE IF /\ deadline # tasks[id].deadline /\ ~rebase
            /\ get_child_branch_conflict_deadline_tasks(tasks, id, deadline, client) # <<>>
    THEN "Can't Rebase In Past"
    ELSE ""

\* one of the two rebases after the update: skipped unless rebase was asked
\* for, the old value exists and the value changed
rebase_after_update(tasks, id, new, old, rebase, by) ==
    IF rebase /\ old # None /\ new # old
    THEN rebase_the_task_dates(tasks, id, rebase_difference(new, old), by)
    ELSE tasks

rebase_after_update_raises(tasks, id, new, old, rebase, by) ==
    /\ rebase /\ old # None /\ new # old
    /\ rebase_the_task_dates_raises(tasks, id, by)

\* TaskRetrieveUpdateDestroyAPIView.perform_update of the dates of a task: the
\* validations, the update of the instance, the rebase by started, the rebase
\* by deadline; a TypeError in a rebase ends the request where it is
PerformUpdate ==
    /\ call.op = "none"
    /\ \E id \in Objects(db.tasks), rebase \in BOOLEAN :
       \E started \in Times \cup {db.tasks[id].started},
          deadline \in Times \cup {db.tasks[id].deadline} :
         LET instance == db.tasks[id]
             rejected == perform_update_rejects(db.tasks, id, started, deadline,
                                                rebase, instance.client)
             updated == [db.tasks EXCEPT ![id].started = started,
                                         ![id].deadline = deadline]
             raised1 == rebase_after_update_raises(updated, id, started,
                                                   instance.started, rebase, "started")
             rebased1 == rebase_after_update(updated, id, started, instance.started,
                                             rebase, "started")
             raised2 == rebase_after_update_raises(rebased1, id, deadline,
                                                   instance.deadline, rebase, "deadline")
             rebased2 == rebase_after_update(rebased1, id, deadline, instance.deadline,
                                             rebase, "deadline")
         IN  /\ db' = [db EXCEPT !.tasks =
                          IF rejected # "" THEN db.tasks
                          ELSE IF raised1 THEN updated
                          ELSE rebased2]
             /\ call' = [op |-> "perform_update", kind |-> "Task", instance |-> id,
                         started |-> started, deadline |-> deadline,
                         rebase |-> rebase, rejected |-> rejected,
                         raised |-> rejected = "" /\ (raised1 \/ raised2)]
    /\ pre' = db
    /\ ret' = None
    /\ UNCHANGED gen

\* task 1 runs from 60 to 120; each task below has or lacks a started of 120
\* and a deadline of 120, and one task of the tree may be of another client,
\* tombstoned or a template
InitUpdate ==
    /\ \E ps \in Forests(DatedIds), s \in DatedIds \ {1}, v \in DatedVariants,
          ss \in [DatedIds -> {120, None}], ds \in [DatedIds -> {120, None}] :
         /\ ss[1] = 120 /\ ds[1] = 120
         /\ db = [EmptyDb EXCEPT !.tasks =
                     [i \in DatedIds |->
                        DatedTask(ps[i], IF i = s THEN v ELSE "same",
                                  IF i = 1 THEN 60 ELSE ss[i], ds[i])]]
    /\ call = NoCall
    /\ pre = EmptyDb
    /\ ret = None
    /\ gen = NoGen

NextUpdate == PerformUpdate

SpecUpdate == InitUpdate /\ [][NextUpdate]_vars

Updated == call.op = "perform_update"

\* the stored task before the update
OldTask == pre.tasks[call.instance]

\* the update changes the field which and the conflict query of that field is
\* non-empty for the proposed value
ConflictFor(which) ==
    /\ call[which] # OldTask[which]
    /\ IF which = "started"
       THEN get_child_branch_conflict_started_tasks(
                pre.tasks, call.instance, call.started, OldTask.client) # <<>>
       ELSE get_child_branch_conflict_deadline_tasks(
                pre.tasks, call.instance, call.deadline, OldTask.client) # <<>>

\* the tasks a rebase of the branch of the updated task writes
RebasedBranch ==
    SeqToSet(Task_get_child_branch(pre.tasks, call.instance)) \cap Objects(pre.tasks)

\* the field which of the branch is moved by new value - old value
BranchMovedBy(which) ==
    \A t \in RebasedBranch :
        db.tasks[t][which] = pre.tasks[t][which] + (call[which] - OldTask[which])

\* the field which of the branch is as it was
BranchKept(which) ==
    \A t \in RebasedBranch : db.tasks[t][which] = pre.tasks[t][which]

C18_RejectedForConflict ==
    /\ Updated /\ ~call.rebase /\ ConflictFor("deadline")
    /\ call.rejected = "Can't Rebase In Past"
    /\ db = pre

----------------------------------------------------------------------------
(* Recurrence generator: early return and commit *)

\* a precondition of the generator is unmet: no rule, no deadline, or neither
\* started nor both duration_estimate and duration_unit
PreconditionUnmet(task) ==
    \/ task.rrule = NoRule
    \/ task.deadline = None
    \/ /\ task.started = None
       /\ (task.duration_estimate = None \/ task.duration_unit = NoUnit)

Called == call.op = "repeated_task_creator"

\* C19: when a precondition is unmet (the seed has no rule, no deadline, or
\* neither started nor both duration fields) the generator returns at once,
\* with nothing (None) as its result, raising no error and leaving the store
\* as it was.
C19_UnmetPreconditionReturnsNothingWritesNothing ==
    (Called /\ PreconditionUnmet(Seed)) =>
        /\ gen.pc = "done"
        /\ gen.returned = "None"
        /\ ret = None
        /\ db = pre

\* a seed without a rule that has both dates, handed to the generator with commit
C19_Witness ==
    /\ Called /\ call.commit
    /\ Seed.rrule = NoRule /\ Seed.started # None /\ Seed.deadline # None
    /\ gen.pc = "done" /\ gen.returned = "None"
    /\ db = pre

\* the table is the table old with exactly the objects added as rows
GainsExactly(table, old, objects) ==
    /\ DOMAIN table = DOMAIN old \cup {objects[j].id : j \in 1 .. Len(objects)}
    /\ \A i \in DOMAIN old : table[i] = old[i]
    /\ \A j \in 1 .. Len(objects) :
          objects[j].id \notin DOMAIN old /\ table[objects[j].id] = objects[j].row

\* C20: a finished call of the generator leaves the store either as it was or
\* with exactly the returned objects added: without commit the store is as
\* before; with commit it gains exactly the returned tasks, backlog links and
\* resource links, or, when one of the three batch writes is refused, nothing.
C20_CommitIsAllOrNothing ==
    (Called /\ gen.pc = "done") =>
        /\ ~call.commit => db = pre
        /\ gen.returned \in {"None", "raised"} => db = pre
        /\ (call.commit /\ gen.returned = "dict") =>
              /\ GainsExactly(db.tasks, pre.tasks, ret.tasks)
              /\ GainsExactly(db.task_backlogs, pre.task_backlogs, ret.task_backlogs)
              /\ GainsExactly(db.task_resources, pre.task_resources, ret.task_resources)
              /\ db.task_statuses = pre.task_statuses /\ db.backlogs = pre.backlogs

\* a call with commit whose third batch is refused after tasks and backlog
\* links were generated: nothing of them is in the store
C20_Witness ==
    /\ Called /\ call.commit /\ gen.pc = "done" /\ gen.returned = "raised"
    /\ Len(gen.tasks_objects) > 0 /\ Len(gen.task_backlogs_objects) > 0
    /\ db = pre

----------------------------------------------------------------------------
(* Order rebase with a refused write: api/utils.py *)

\* The loops of the three rebases save one row after the other, each save in
\* its own transaction (no transaction.atomic, no ATOMIC_REQUESTS).  failed is
\* the position in the loop whose save the database refuses; Len(next) + 1
\* when none is.  The rows saved before it stay written.
RebaseTasksOrderInterrupted ==
    /\ call.op = "none"
    /\ \E instance \in Objects(db.tasks), client \in Clients :
         LET t == db.tasks[instance] IN
         \E next \in next_tasks(db.tasks, instance, t.order, t.parent_task,
                                t.project, client) :
         \E failed \in 1 .. (Len(next) + 1) :
            /\ db' = [db EXCEPT !.tasks =
                        rebase_tasks_order(db.tasks, SubSeq(next, 1, failed - 1), t.order)]
            /\ call' = [op |-> "rebase_tasks_order", kind |-> "Task",
                        instance |-> instance, order |-> t.order,
                        raised |-> failed <= Len(next)]
    /\ pre' = db
    /\ ret' = None
    /\ UNCHANGED gen

RebaseTaskStatusInterrupted ==
    /\ call.op = "none"
    /\ \E instance \in Objects(db.task_statuses), client \in Clients :
         LET st == db.task_statuses[instance] IN
         \E next \in next_task_statuses(db.task_statuses, instance, st.order,
                                        st.project, client) :
         \E failed \in 1 .. (Len(next) + 1) :
            /\ db' = [db EXCEPT !.task_statuses =
                        rebase_task_status(db.task_statuses,
                                           SubSeq(next, 1, failed - 1), st.order)]
            /\ call' = [op |-> "rebase_task_status", kind |-> "TaskStatus",
                        instance |-> instance, order |-> st.order,
                        raised |-> failed <= Len(next)]
    /\ pre' = db
    /\ ret' = None
    /\ UNCHANGED gen

RebaseBacklogsOrderInterrupted ==
    /\ call.op = "none"
    /\ \E instance \in Objects(db.backlogs), client \in Clients :
         LET b == db.backlogs[instance] IN
         \E next \in next_backlogs(db.backlogs, instance, b.order, b.hlr, client) :
         \E failed \in 1 .. (Len(next) + 1) :
            /\ db' = [db EXCEPT !.backlogs =
                        rebase_backlogs_order(db.backlogs,
                                              SubSeq(next, 1, failed - 1), b.order)]
            /\ call' = [op |-> "rebase_backlogs_order", kind |-> "Backlog",
                        instance |-> instance, order |-> b.order,
                        raised |-> failed <= Len(next)]
    /\ pre' = db
    /\ ret' = None
    /\ UNCHANGED gen

NextRebaseInterrupted ==
    \/ RebaseTasksOrderInterrupted
    \/ RebaseTaskStatusInterrupted
    \/ RebaseBacklogsOrderInterrupted

SpecRebaseInterrupted == InitRebase /\ [][NextRebaseInterrupted]_vars

\* C21: when the write of a shifted sibling fails part-way through a rebase of
\* orders, no row has a stored order other than the one it had before the call.
C21_InterruptedRebaseChangesNoOrder ==
    (call.op \in {"rebase_tasks_order", "rebase_task_status", "rebase_backlogs_order"}
        /\ call.raised) =>
        \A i \in DOMAIN TableOf(pre) : TableOf(db)[i].order = TableOf(pre)[i].order

----------------------------------------------------------------------------
(* Subtree cloning: a step that fails *)

\* C22: when a step of a clone fails (an exception while a project is
\* duplicated, a refused batch write after duplicate_task) no cloned row stays
\* in the store: projects, tasks and links are as before the call.
C22_FailedCloneLeavesNoRow ==
    (call.op \in {"clone_task", "duplicate_project"} /\ call.raised # "") =>
        /\ db.projects = pre.projects
        /\ db.tasks = pre.tasks
        /\ db.task_resources = pre.task_resources

\* the part that does hold: a project clone that fails while the clones are
\* collected has written no task and no link
C22_FailedProjectCloneWritesNoTask ==
    (call.op = "duplicate_project" /\ call.raised # "") =>
        /\ db.tasks = pre.tasks
        /\ db.task_resources = pre.task_resources

----------------------------------------------------------------------------
(* TaskStatus create and update: api/views.py *)

\* TaskStatus.objects.filter(<field>=..., parent=parent, project=project,
\* client=client).exclude(id=id).exists() for the name and for final_stage
status_exists(statuses, id, field, value, parent, project, client) ==
    \E i \in Objects(statuses) \ {id} :
        /\ statuses[i][field] = value
        /\ statuses[i].parent = parent
        /\ statuses[i].project = project
        /\ statuses[i].client = client

\* the validations of perform_update (with id) and of perform_create (id is
\* None: no instance yet, so no parent check), in their order; the key of the
\* ValidationError, "" when all pass.  list(map(...)) over the child branch is
\* true as soon as the branch is not empty.
task_status_rejects(statuses, id, name, parent, project, final_stage, client) ==
    IF id # None /\ parent = id THEN "parent"
    ELSE IF /\ id # None /\ parent # None /\ statuses[id].parent = None
            /\ TaskStatus_get_child_branch(statuses, id) # <<>>
    THEN "parent"
    ELSE IF /\ project # None
            /\ status_exists(statuses, id, "name", name, parent, project, client)
    THEN "name"
    ELSE IF /\ final_stage /\ project # None
            /\ status_exists(statuses, id, "final_stage", TRUE, parent, project, client)
    THEN "final_stage"
    ELSE ""

\* the optional rebase after the save
rebase_after_save(statuses, id, rebase, client) ==
    IF rebase /\ statuses[id].project # None
    THEN {rebase_task_status(statuses, next, statuses[id].order) :
             next \in next_task_statuses(statuses, id, statuses[id].order,
                                         statuses[id].project, client)}
    ELSE {statuses}

\* statuses a store holds at most, requests a behaviour makes at most
MaxStatuses == 3
MaxRequests == 4

\* the client of the requests
RequestClient == 1

InitStatus ==
    /\ db = EmptyDb
    /\ call = [op |-> "none", n |-> 0]
    /\ pre = EmptyDb
    /\ ret = None
    /\ gen = NoGen

\* TaskStatusListCreateAPIView.perform_create: the request names the new
\* status (a name no status has yet), an optional parent among the visible
\* statuses, an optional project, final_stage and rebase
TaskStatusCreate ==
    /\ call.n < MaxRequests
    /\ Len(db.task_statuses) < MaxStatuses
    /\ \E parent \in Objects(db.task_statuses) \cup {None}, project \in {1, None},
          final_stage \in BOOLEAN, rebase \in BOOLEAN :
         LET id == Len(db.task_statuses) + 1
             name == id
             rejected == task_status_rejects(db.task_statuses, None, name, parent,
                                             project, final_stage, RequestClient)
             instance == [TaskStatus(parent, project, RequestClient, 0, FALSE, FALSE)
                             EXCEPT !.final_stage = final_stage] @@ [name |-> name]
             saved == Append(db.task_statuses,
                             set_order_for_task_status(db.task_statuses, id, instance))
         IN  /\ \E written \in IF rejected # "" THEN {db.task_statuses}
                               ELSE rebase_after_save(saved, id, rebase, RequestClient) :
                    db' = [db EXCEPT !.task_statuses = written]
             /\ call' = [op |-> "create", n |-> call.n + 1, instance |-> id,
                         parent |-> parent, project |-> project,
                         final_stage |-> final_stage, rejected |-> rejected]
    /\ pre' = db
    /\ ret' = None
    /\ UNCHANGED gen

\* TaskStatusRetrieveUpdateDestroyAPIView.perform_update: the request may
\* change parent, project and final_stage of a visible status
TaskStatusUpdate ==
    /\ call.n < MaxRequests
    /\ \E id \in Objects(db.task_statuses) :
       \E parent \in Objects(db.task_statuses) \cup {None}, project \in {1, None},
          final_stage \in BOOLEAN, rebase \in BOOLEAN :
         LET old == db.task_statuses[id]
             rejected == task_status_rejects(db.task_statuses, id, old.name, parent,
                                             project, final_stage, RequestClient)
             instance == [old EXCEPT !.parent = parent, !.project = project,
                                     !.final_stage = final_stage]
             saved == [db.task_statuses EXCEPT
                          ![id] = set_order_for_task_status(db.task_statuses, id, instance)]
         IN  /\ \E written \in IF rejected # "" THEN {db.task_statuses}
                               ELSE rebase_after_save(saved, id, rebase, RequestClient) :
                    db' = [db EXCEPT !.task_statuses = written]
             /\ call' = [op |-> "update", n |-> call.n + 1, instance |-> id,
                         parent |-> parent, project |-> project,
                         final_stage |-> final_stage, rejected |-> rejected]
    /\ pre' = db
    /\ ret' = None
    /\ UNCHANGED gen

NextStatus == TaskStatusCreate \/ TaskStatusUpdate

SpecStatus == InitStatus /\ [][NextStatus]_vars

\* the statuses that are not tombstoned
NonDeleted(statuses) == {i \in DOMAIN statuses : ~statuses[i].is_deleted}

SameGroup(a, b) ==
    /\ a.parent = b.parent /\ a.project = b.project /\ a.client = b.client

\* no two final stages in one group of the store, for the groups that G holds
OneFinalStagePerGroup(statuses, G) ==
    \A i, j \in NonDeleted(statuses) :
        (/\ i # j /\ statuses[i].final_stage /\ statuses[j].final_stage
         /\ SameGroup(statuses[i], statuses[j])) => statuses[i].project \notin G

Requested == call.op \in {"create", "update"}

\* the request asks for a final stage in a group that has one already
SecondFinalStage ==
    /\ call.final_stage
    /\ \E i \in NonDeleted(pre.task_statuses) \ {call.instance} :
          /\ pre.task_statuses[i].final_stage
          /\ pre.task_statuses[i].parent = call.parent
          /\ pre.task_statuses[i].project = call.project
          /\ pre.task_statuses[i].client = RequestClient

\* C23: in every state reached through creates and updates of statuses no
\* (parent, project, tenant) group holds two non-deleted final stages; a
\* request that would make a second one is rejected, under the key
\* final_stage unless an earlier validation rejects it, and changes nothing.
C23_AtMostOneFinalStagePerGroup ==
    /\ OneFinalStagePerGroup(db.task_statuses, {1, None})
    /\ (Requested /\ SecondFinalStage) =>
          /\ call.rejected \in {"final_stage", "parent", "name"}
          /\ db = pre

\* C23 for the groups of a project: it is the statuses without a project that
\* the validation passes over
C23_AtMostOneFinalStagePerProjectGroup ==
    /\ OneFinalStagePerGroup(db.task_statuses, {1})
    /\ (Requested /\ SecondFinalStage /\ call.project # None) =>
          /\ call.rejected \in {"final_stage", "parent", "name"}
          /\ db = pre

\* the chain of parents of id ends at a parentless status within hops steps
RECURSIVE ReachesRoot(_, _, _)
ReachesRoot(statuses, id, hops) ==
    \/ statuses[id].parent = None
    \/ hops > 0 /\ ReachesRoot(statuses, statuses[id].parent, hops - 1)

Acyclic(statuses) == \A i \in DOMAIN statuses : ReachesRoot(statuses, i, Len(statuses))

\* a is strictly below b in a store without cycles
RECURSIVE StatusBelow(_, _, _)
StatusBelow(statuses, a, b) ==
    /\ statuses[a].parent # None
    /\ \/ statuses[a].parent = b
       \/ StatusBelow(statuses, statuses[a].parent, b)

\* C24: after any sequence of successful creates and updates of statuses the
\* parent relation has no cycle; an update that names the status itself or one
\* of its descendants as parent is rejected, and one that names a status that
\* is not a descendant is not rejected for its parent.
C24_ParentRelationStaysAcyclic ==
    /\ Acyclic(db.task_statuses)
    /\ (call.op = "update" /\ call.parent # None /\ Acyclic(pre.task_statuses)) =>
          IF \/ call.parent = call.instance
             \/ StatusBelow(pre.task_statuses, call.parent, call.instance)
          THEN call.rejected = "parent"
          ELSE call.rejected # "parent"

\* the part of C24 the validations do enforce: no status is ever its own parent
C24_NoStatusIsItsOwnParent ==
    \A i \in DOMAIN db.task_statuses : db.task_statuses[i].parent # i

----------------------------------------------------------------------------
(* status_assigned_date on save: models.py pre_save hook of Task *)

\* the first half of set_order_for_task_and_status_date: task is the stored
\* row as Task.objects finds it (none for a new, tombstoned or template row)
set_status_assigned_date(tasks, id, instance, now, no_order_signal) ==
    LET found == id \in Objects(tasks)
        first == IF ~found \/ (tasks[id].status # None
                               /\ tasks[id].status_assigned_date = None)
                 THEN [instance EXCEPT !.status_assigned_date = now]
                 ELSE instance
    IN  IF no_order_signal THEN instance
        ELSE IF found /\ instance.status # None /\ tasks[id].status # instance.status
        THEN [first EXCEPT !.status_assigned_date = now]
        ELSE first

\* tasks a store holds at most, saves a behaviour makes at most
MaxStamped == 2
MaxSaves == 4

StatusIds == {1, 2}

InitStamp ==
    /\ db = EmptyDb
    /\ call = [op |-> "none", now |-> 1]
    /\ pre = EmptyDb
    /\ ret = None
    /\ gen = NoGen

\* Task.save() at clock time call.now: a new task with any status, or a stored
\* task with a status the caller chose; the saves of rebase_tasks_order carry
\* no_order_signal and leave the status alone
StampedSave ==
    /\ call.now <= MaxSaves
    /\ \E id \in Objects(db.tasks) \cup
                 (IF Len(db.tasks) < MaxStamped THEN {Len(db.tasks) + 1} ELSE {}),
          status \in StatusIds \cup {None}, no_order_signal \in BOOLEAN :
         LET new == id \notin DOMAIN db.tasks
             old == IF new
                    THEN Task(None, 1, 1, 0, FALSE, FALSE)
                         @@ [status |-> None, status_assigned_date |-> None]
                    ELSE db.tasks[id]
             instance == [old EXCEPT !.status = status]
             saved == set_order_for_task_and_status_date(
                          db.tasks, id,
                          set_status_assigned_date(db.tasks, id, instance, call.now,
                                                   no_order_signal),
                          no_order_signal)
         IN  /\ no_order_signal => (~new /\ status = old.status)
             /\ db' = [db EXCEPT !.tasks = Written(db.tasks, id, saved)]
             /\ call' = [op |-> "save", now |-> call.now + 1, at |-> call.now,
                         instance |-> id, new |-> new, status |-> status,
                         no_order_signal |-> no_order_signal]
    /\ pre' = db
    /\ ret' = None
    /\ UNCHANGED gen

NextStamp == StampedSave

SpecStamp == InitStamp /\ [][NextStamp]_vars

Stamped == call.op = "save"

\* the status the task had in the store before the save; None for a new task
StatusBefore == IF call.new THEN None ELSE pre.tasks[call.instance].status

DateBefore == IF call.new THEN None ELSE pre.tasks[call.instance].status_assigned_date

DateAfter == db.tasks[call.instance].status_assigned_date

\* C25: a save that changes the status of a task to a different value, the
\* creating save included, sets status_assigned_date to the time of the save;
\* a save that leaves the status as it is on a task that has a
\* status_assigned_date leaves the date as it is.
C25_StatusChangeStampsTheDate ==
    Stamped =>
       /\ (call.new \/ call.status # StatusBefore) => DateAfter = call.at
       /\ (~call.new /\ call.status = StatusBefore /\ DateBefore # None) =>
             DateAfter = DateBefore

\* C25 for changes to a status: a save that clears the status is left aside
C25_ChangeToAStatusStampsTheDate ==
    Stamped =>
       /\ (call.new \/ (call.status # StatusBefore /\ call.status # None)) =>
             DateAfter = call.at
       /\ (~call.new /\ call.status = StatusBefore /\ DateBefore # None) =>
             DateAfter = DateBefore

----------------------------------------------------------------------------
(* Two concurrent order rebases: api/utils.py, api/views.py *)

\* a save that moves the row one up from the order it has in the store now
save_next_task_from_store(tasks, next, idx, order) ==
    [tasks EXCEPT ![next[idx]].order = @ + 1]

\* one turn of the loop of rebase_tasks_order: the row read at the start of
\* the loop is given order + (idx + 1), idx counted from 0, and saved
save_next_task(tasks, next, idx, order) ==
    [tasks EXCEPT ![next[idx]].order = order + idx]

\* tasks of the scope the two calls work on
NumRaced == 3

RacedIds == 1 .. NumRaced

Callers == {1, 2}

\* the tasks of one scope with any orders; each caller has saved its instance
\* and is about to rebase the siblings from the instance's order on.  No lock
\* and no transaction ties the query of a call to its saves.
InitRace ==
    /\ \E os \in [RacedIds -> 1 .. (MaxOrder + 1)], is \in [Callers -> RacedIds] :
         /\ db = [EmptyDb EXCEPT
                    !.tasks = [i \in RacedIds |-> VariantTask("same", os[i])]]
         /\ gen = [pc |-> "race",
                   proc |-> [c \in Callers |->
                               [pc |-> "query", instance |-> is[c],
                                order |-> os[is[c]], next |-> <<>>, idx |-> 1]]]
    /\ pre = db
    /\ call = [op |-> "rebase_tasks_order", kind |-> "Task"]
    /\ ret = None

\* the query of rebase_tasks_order, evaluated when the for loop starts
RaceQuery(c) ==
    /\ gen.pc = "race" /\ gen.proc[c].pc = "query"
    /\ LET me == gen.proc[c]
           t == db.tasks[me.instance]
       IN  \E next \in next_tasks(db.tasks, me.instance, me.order, t.parent_task,
                                  t.project, t.client) :
              gen' = [gen EXCEPT !.proc[c].next = next,
                                 !.proc[c].pc = IF next = <<>> THEN "done" ELSE "loop"]
    /\ UNCHANGED <<db, call, pre, ret>>

\* one task.save() of the loop
RaceSave(c) ==
    /\ gen.pc = "race" /\ gen.proc[c].pc = "loop"
    /\ LET me == gen.proc[c] IN
         /\ db' = [db EXCEPT !.tasks = save_next_task(@, me.next, me.idx, me.order)]
         /\ gen' = [gen EXCEPT !.proc[c].idx = @ + 1,
                               !.proc[c].pc = IF me.idx = Len(me.next) THEN "done"
                                              ELSE "loop"]
    /\ UNCHANGED <<call, pre, ret>>

NextRace == \E c \in Callers : RaceQuery(c) \/ RaceSave(c)

SpecRace == InitRace /\ [][NextRace]_vars

\* the stores one whole call of caller c can leave, run alone on tasks
AloneOutcomes(tasks, c) ==
    LET me == gen.proc[c]
        t == tasks[me.instance]
    IN  {rebase_tasks_order(tasks, next, me.order) :
            next \in next_tasks(tasks, me.instance, me.order, t.parent_task,
                                t.project, t.client)}

\* the stores the two calls can leave when one runs after the other
SerialOutcomes ==
    UNION {AloneOutcomes(after, 2) : after \in AloneOutcomes(pre.tasks, 1)}
    \cup UNION {AloneOutcomes(after, 1) : after \in AloneOutcomes(pre.tasks, 2)}

BothDone == gen.pc = "race" /\ \A c \in Callers : gen.proc[c].pc = "done"

\* the order caller c gives to task i, 0 when it does not save it
OrderGivenBy(c, i) ==
    IF IndexOf(gen.proc[c].next, i) > 0
    THEN gen.proc[c].order + IndexOf(gen.proc[c].next, i)
    ELSE 0

\* C26: nothing keeps the query of a rebase and its saves together: when two
\* calls on one scope have both finished, every task holds the order it had
\* or an order one of the calls computed from the rows it read at its start,
\* whatever the other call wrote in between; the two calls can so end in a
\* store no serial order of them produces (C26_Witness).
C26_SavesWriteWhatTheQueryRead ==
    BothDone =>
        \A i \in RacedIds :
            LET given == {OrderGivenBy(c, i) : c \in Callers} \ {0}
            IN  IF given = {} THEN db.tasks[i].order = pre.tasks[i].order
                ELSE db.tasks[i].order \in given

\* both calls have finished and the store is none that a serial order leaves
C26_Witness ==
    /\ BothDone
    /\ db.tasks \notin SerialOutcomes

----------------------------------------------------------------------------
(* Date rebase of a whole project: api/utils.py, api/views.py *)

\* a rebase that skips no task: the rows without a started get their deadline
\* moved as well
rebase_the_project_dates_of_all(tasks, project, difference) ==
    [i \in DOMAIN tasks |->
        IF i \in Objects(tasks) /\ tasks[i].project = project
        THEN [tasks[i] EXCEPT
                !.started = IF @ # None THEN @ + difference ELSE @,
                !.deadline = IF @ # None THEN @ + difference ELSE @]
        ELSE tasks[i]]

\* rebase_the_project_dates: Task.objects.filter(project, started__isnull=False);
\* started and, when it is set, deadline get difference added; bulk_update
rebase_the_project_dates(tasks, project, difference) ==
    [i \in DOMAIN tasks |->
        IF i \in Objects(tasks) /\ tasks[i].project = project
           /\ tasks[i].started # None
        THEN [tasks[i] EXCEPT
                !.started = @ + difference,
                !.deadline = IF @ # None THEN @ + difference ELSE @]
        ELSE tasks[i]]

\* tasks in the store
NumShifted == 3

ShiftedIds == 1 .. NumShifted

ShiftedVariants == {"same", "other_project", "deleted", "template"}

ProjectIds == {1, 2}

ShiftedTask(v, started, deadline) ==
    [Task(None, IF v = "other_project" THEN 2 ELSE 1, 1, 1,
          v = "deleted", v = "template")
        EXCEPT !.started = started, !.deadline = deadline]

InitProjectDates ==
    /\ \E vs \in [ShiftedIds -> ShiftedVariants],
          ss \in [ShiftedIds -> {60, None}], ds \in [ShiftedIds -> {120, None}],
          ps \in {60, None} :
         db = [EmptyDb EXCEPT !.tasks =
                  [i \in ShiftedIds |-> ShiftedTask(vs[i], ss[i], ds[i])]]
              @@ [projects |-> <<[client |-> 1, _template |-> FALSE, started |-> ps],
                                 [client |-> 1, _template |-> FALSE, started |-> 60]>>]
    /\ call = NoCall
    /\ pre = EmptyDb
    /\ ret = None
    /\ gen = NoGen

\* ProjectRetrieveUpdateDestroyAPIView.perform_update with a started in the
\* request: without rebase a task of the project that starts earlier rejects
\* the update; otherwise the project is saved, and with rebase its tasks are
\* moved by new started - old started (TypeError when the old one is null)
ProjectPerformUpdate ==
    /\ call.op = "none"
    /\ \E project \in ProjectIds, started \in {60, 90}, rebase \in BOOLEAN :
         LET instance == db.projects[project]
             conflict_tasks == {i \in Objects(db.tasks) :
                                  /\ db.tasks[i].project = project
                                  /\ db.tasks[i].started # None
                                  /\ db.tasks[i].started < started
                                  /\ db.tasks[i].client = RequestClient}
             rejected == ~rebase /\ conflict_tasks # {}
             raised == ~rejected /\ rebase /\ instance.started = None
             saved == [db EXCEPT !.projects[project].started = started]
         IN  /\ db' = IF rejected THEN db
                      ELSE IF raised \/ ~rebase THEN saved
                      ELSE [saved EXCEPT !.tasks = rebase_the_project_dates(
                                @, project, started - instance.started)]
             /\ call' = [op |-> "project_perform_update", kind |-> "Project",
                         project |-> project, started |-> started,
                         rebase |-> rebase, rejected |-> rejected,
                         raised |-> raised,
                         difference |-> IF instance.started = None THEN 0
                                        ELSE started - instance.started]
    /\ pre' = db
    /\ ret' = None
    /\ UNCHANGED gen

NextProjectDates == ProjectPerformUpdate

SpecProjectDates == InitProjectDates /\ [][NextProjectDates]_vars

\* the project's dates were rebased
ProjectRebased ==
    /\ call.op = "project_perform_update"
    /\ call.rebase /\ ~call.rejected /\ ~call.raised

\* C27: a date rebase of a project adds the difference to started and, when it
\* is set, to deadline of every task of the project that is neither deleted
\* nor a template and has a started; a task without a started keeps both its
\* fields, and so does every task of another project.
C27_ProjectRebaseShiftsExactlyTheStartedTasks ==
    ProjectRebased =>
        \A i \in DOMAIN pre.tasks :
            LET old == pre.tasks[i]
            IN  IF /\ old.project = call.project
                   /\ ~old.is_deleted /\ ~old._template
                   /\ old.started # None
                THEN db.tasks[i] =
                        [old EXCEPT
                           !.started = @ + call.difference,
                           !.deadline = IF @ = None THEN None
                                        ELSE @ + call.difference]
                ELSE db.tasks[i] = old

\* a rebase by a difference that is not zero, over a project with a task that
\* has both dates, a task that has only a deadline, and beside a task of
\* another project that has both
C27_Witness ==
    /\ ProjectRebased
    /\ call.difference # 0
    /\ \E i, j, k \in DOMAIN pre.tasks :
         /\ i \in Objects(pre.tasks) /\ pre.tasks[i].project = call.project
         /\ pre.tasks[i].started # None /\ pre.tasks[i].deadline # None
         /\ db.tasks[i].deadline = pre.tasks[i].deadline + call.difference
         /\ j \in Objects(pre.tasks) /\ pre.tasks[j].project = call.project
         /\ pre.tasks[j].started = None /\ pre.tasks[j].deadline # None
         /\ db.tasks[j] = pre.tasks[j]
         /\ pre.tasks[k].project # call.project
         /\ pre.tasks[k].started # None
         /\ db.tasks[k] = pre.tasks[k]

----------------------------------------------------------------------------
(* Soft delete with cascade: softdelete/models.py *)

\* a node of the cascade: a row of one table
Node(table, id) == [table |-> table, id |-> id]

\* every arrangement of the rows S of one table as a list of nodes
NodeLists(table, S) ==
    {[j \in 1 .. Cardinality(S) |-> Node(table, f[j])] : f \in Permutations_(S)}

\* <accessor>(manager="objects").all(): the rows of table that name id in
\* field, the tombstoned rows and the templates left out
ReverseRows(table, field, id) ==
    {i \in DOMAIN table :
        table[i][field] = id /\ ~table[i].is_deleted /\ ~table[i]._template}

\* related objects read through the accessor task_set alone
get_related_objects_of_task_set(d, node) ==
    IF node.table # "tasks" THEN {<<>>}
    ELSE NodeLists("tasks", ReverseRows(d.tasks, "parent_task", node.id))

\* get_related_objects(manager="objects"): for every reverse accessor of the
\* model, in turn, the list of the rows its "objects" manager returns for this
\* instance; each list in the order the database gives.  A Task has task_set
\* (parent_task), task_dependency, task_predecessor and the accessors of the
\* join records; a join record has none.
get_related_objects(d, node) ==
    IF node.table # "tasks" THEN {<<>>}
    ELSE {a \o b \o c \o e :
            a \in NodeLists("tasks", ReverseRows(d.tasks, "parent_task", node.id)),
            b \in NodeLists("tasks", ReverseRows(d.tasks, "dependency", node.id)),
            c \in NodeLists("tasks", ReverseRows(d.tasks, "predecessor", node.id)),
            e \in NodeLists("task_backlogs",
                            ReverseRows(d.task_backlogs, "task", node.id))}

\* delete() up to the cascade: is_deleted = True; save()
Tombstone(d, node) == [d EXCEPT ![node.table][node.id].is_deleted = TRUE]

\* tasks in the store
NumCascade == 2

CascadeIds == 1 .. NumCascade

CascadeVariants == {"same", "deleted", "template"}

\* tasks under any forest of parents, each naming any task or none as its
\* dependency (or, all of them, as predecessor); at most one of them is
\* tombstoned or a template; one join record on one of the tasks.  Templates
\* are written by duplicate_project alone, whole projects at a time: a
\* template names templates and is named by templates only.  Orders are set,
\* so the save hook of Task leaves the rows as they are.
InitCascade ==
    /\ \E ps \in Forests(CascadeIds), rs \in [CascadeIds -> CascadeIds \cup {None}],
          by \in {"dependency", "predecessor"},
          vs \in [CascadeIds -> CascadeVariants], l \in CascadeIds :
         /\ Cardinality({i \in CascadeIds : vs[i] # "same"}) <= 1
         /\ \A i, j \in CascadeIds :
               (ps[i] = j \/ rs[i] = j) => ((vs[i] = "template") <=> (vs[j] = "template"))
         /\ db = [EmptyDb EXCEPT
                    !.tasks = [i \in CascadeIds |->
                                 [Task(ps[i], 1, 1, 1, vs[i] = "deleted",
                                       vs[i] = "template")
                                    EXCEPT ![by] = rs[i]]],
                    !.task_backlogs = <<[TaskBacklog(l, 1) EXCEPT
                                           !._template = (vs[l] = "template")]>>]
    /\ call = NoCall
    /\ pre = EmptyDb
    /\ ret = None
    /\ gen = NoGen

\* instance.delete() of the destroy views, on a task the view can fetch: the
\* row is tombstoned and saved, then its related objects are read
SoftDelete ==
    /\ call.op = "none"
    /\ \E id \in Objects(db.tasks) :
         LET saved == Tombstone(db, Node("tasks", id)) IN
         /\ db' = saved
         /\ \E related \in get_related_objects(saved, Node("tasks", id)) :
               gen' = [pc |-> "cascade", stack |-> <<related>>, deletes |-> 1]
         /\ call' = [op |-> "delete", kind |-> "Task", instance |-> id]
    /\ pre' = db
    /\ ret' = None

\* delete_related_objects: obj.delete() of the next object of the list read
\* by the caller, whatever the store says of it by now
DeleteRelatedObject ==
    /\ call.op = "delete" /\ gen.pc = "cascade"
    /\ gen.stack # <<>> /\ Head(gen.stack) # <<>>
    /\ LET obj == Head(Head(gen.stack))
           saved == Tombstone(db, obj)
       IN  /\ db' = saved
           /\ \E related \in get_related_objects(saved, obj) :
                 gen' = [gen EXCEPT
                           !.stack = <<related, Tail(Head(gen.stack))>> \o Tail(gen.stack),
                           !.deletes = @ + 1]
    /\ UNCHANGED <<call, pre, ret>>

\* the loop of delete_related_objects is through: delete() returns
ReturnFromDelete ==
    /\ call.op = "delete" /\ gen.pc = "cascade"
    /\ gen.stack # <<>> /\ Head(gen.stack) = <<>>
    /\ gen' = [gen EXCEPT !.stack = Tail(gen.stack),
                          !.pc = IF Tail(gen.stack) = <<>> THEN "done" ELSE "cascade"]
    /\ UNCHANGED <<db, call, pre, ret>>

NextCascade == SoftDelete \/ DeleteRelatedObject \/ ReturnFromDelete

\* a request runs to its end: nothing suspends the interpreter between steps
SpecCascade == InitCascade /\ [][NextCascade]_vars /\ WF_vars(NextCascade)

CascadeDone == call.op = "delete" /\ gen.pc = "done"

Tombstoned(table) == {i \in DOMAIN table : table[i].is_deleted}

\* the tasks that reach a task of S through parent_task, dependency or
\* predecessor, going through rows that are not tombstoned
RECURSIVE ReverseReachable(_, _)
ReverseReachable(tasks, S) ==
    LET more == {i \in DOMAIN tasks :
                   /\ ~tasks[i].is_deleted
                   /\ \/ tasks[i].parent_task \in S
                      \/ tasks[i].dependency \in S
                      \/ tasks[i].predecessor \in S}
    IN  IF more \subseteq S THEN S
        ELSE ReverseReachable(tasks, S \cup more)

\* a finished cascade has tombstoned the node, the rows that reach it and
\* their join records, and no other row
CascadeTombstones ==
    LET reached == ReverseReachable(pre.tasks, {call.instance})
        joins == {l \in DOMAIN pre.task_backlogs : pre.task_backlogs[l].task \in reached}
    IN  /\ Tombstoned(db.tasks) = Tombstoned(pre.tasks) \cup reached
        /\ Tombstoned(db.task_backlogs) = Tombstoned(pre.task_backlogs) \cup joins

\* no row leaves a table while a delete runs
NoRowRemoved ==
    call.op = "delete" =>
        /\ DOMAIN db.tasks = DOMAIN pre.tasks
        /\ DOMAIN db.task_backlogs = DOMAIN pre.task_backlogs

\* delete() runs on a row that is not tombstoned yet
DeletesTheLiving ==
    (call.op = "delete" /\ gen.pc = "cascade" /\ gen'.deletes > gen.deletes) =>
        LET obj == Head(Head(gen.stack)) IN ~db[obj.table][obj.id].is_deleted

----------------------------------------------------------------------------
(* Recurrence generator: a seed that spans no time *)

\* the seed has a rule, and a started and a deadline that are the same moment
ZeroSpan(task) ==
    /\ task.rrule # NoRule
    /\ task.started # None
    /\ task.deadline = task.started

\* C30: when the seed's started equals its deadline the computed time span
\* is zero and the generator returns at its second guard: no instance is
\* made, the result is nothing (None) and the store is as it was, although
\* rule, deadline and started are all set.
C30_ZeroSpanReturnsNothingWritesNothing ==
    (Called /\ ZeroSpan(Seed)) =>
        /\ gen.pc = "done"
        /\ gen.returned = "None"
        /\ ret = None
        /\ db = pre

\* a seed from 10:00 to 10:00 with a rule that passes the first guard, handed
\* to the generator with commit
C30_Witness ==
    /\ Called /\ call.commit
    /\ ZeroSpan(Seed) /\ ~PreconditionUnmet(Seed)
    /\ time_calculation(Seed).time_diff_sec = 0
    /\ gen.pc = "done" /\ gen.returned = "None"
    /\ db = pre

----------------------------------------------------------------------------
(* Task create and update with a recurrence rule: api/views.py *)

\* requests of one run
MaxRuleRequests == 3

\* rules a request may carry: COUNT=2 and COUNT=3, weekly
RequestRules ==
    {[period |-> Weekly, count |-> 2, length |-> 2],
     [period |-> Weekly, count |-> 3, length |-> 3]}

\* the default of max_count in repeated_task_creator
DefaultMaxCount == 50

\* an update that stores the rule of the request whatever the instance carries
stores_rrule_over_old(instance, rrule, timezone, deadline, started, duration) ==
    /\ rrule # NoRule
    /\ timezone
    /\ deadline # None
    /\ \/ started # None
       \/ duration[1] # None /\ duration[1] # 0 /\ duration[2] # NoUnit

\* perform_create / perform_update: the rule of the request is stored only
\* with a timezone, a deadline and a started or both duration fields; an
\* update reads these from the instance as it was, and only when it has no
\* rule yet
stores_rrule(instance, rrule, timezone, deadline, started, duration) ==
    /\ instance.rrule = NoRule
    /\ rrule # NoRule
    /\ timezone
    /\ deadline # None
    /\ \/ started # None
       \/ duration[1] # None /\ duration[1] # 0 /\ duration[2] # NoUnit

InitRule ==
    /\ db = EmptyDb
    /\ call = [op |-> "none", n |-> 0, ran |-> <<>>]
    /\ pre = EmptyDb
    /\ ret = None
    /\ gen = NoGen

\* no request is being served
Idle == gen.pc \in {"idle", "done"}

\* TaskListCreateAPIView.perform_create: rrule, by and timezone are popped;
\* the task is saved, with the rule when stores_rrule, and then the generator
\* is called with commit
TaskPerformCreate ==
    /\ Idle /\ call.n < MaxRuleRequests
    /\ \E deadline \in {None, Day0T12}, rrule \in RequestRules \cup {NoRule},
          timezone \in BOOLEAN :
         LET id == MaxId(db) + 1
             data == SeedTask(Day0T10, deadline, <<None, NoUnit>>, NoRule)
             stores == stores_rrule(data, rrule, timezone, deadline, Day0T10,
                                    <<None, NoUnit>>)
             instance == set_order_for_task_and_status_date(
                             db.tasks, id,
                             [data EXCEPT !.order = 0,
                                          !.rrule = IF stores THEN rrule ELSE NoRule],
                             FALSE)
             saved == [db EXCEPT !.tasks = Written(@, id, instance)]
         IN  /\ db' = saved
             /\ pre' = saved
             /\ call' = [op |-> "perform_create", kind |-> "Task", instance |-> id,
                         by |-> "deadline", commit |-> TRUE,
                         max_count |-> DefaultMaxCount,
                         n |-> call.n + 1, before |-> db, rrule |-> rrule,
                         old |-> NoRule,
                         generates |-> stores,
                         ran |-> IF stores THEN Append(call.ran, id) ELSE call.ran]
             /\ gen' = IF stores THEN repeated_task_creator_begin(saved, id, "deadline")
                       ELSE NoGen
    /\ ret' = None

\* TaskRetrieveUpdateDestroyAPIView.perform_update of a request that leaves
\* the dates as they are: rrule, by and timezone are popped; the task is
\* saved, with the rule when stores_rrule, and then the generator is called
TaskPerformUpdate ==
    /\ Idle /\ call.n < MaxRuleRequests
    /\ \E id \in Objects(db.tasks), rrule \in RequestRules \cup {NoRule},
          timezone \in BOOLEAN :
         LET instance == db.tasks[id]
             stores == stores_rrule(instance, rrule, timezone, instance.deadline,
                                    instance.started,
                                    <<instance.duration_estimate,
                                      instance.duration_unit>>)
             new_instance == set_order_for_task_and_status_date(
                                 db.tasks, id,
                                 [instance EXCEPT
                                    !.rrule = IF stores THEN rrule ELSE @],
                                 FALSE)
             saved == [db EXCEPT !.tasks = Written(@, id, new_instance)]
         IN  /\ db' = saved
             /\ pre' = saved
             /\ call' = [op |-> "perform_update", kind |-> "Task", instance |-> id,
                         by |-> "deadline", commit |-> TRUE,
                         max_count |-> DefaultMaxCount,
                         n |-> call.n + 1, before |-> db, rrule |-> rrule,
                         old |-> instance.rrule,
                         generates |-> stores,
                         ran |-> IF stores THEN Append(call.ran, id) ELSE call.ran]
             /\ gen' = IF stores THEN repeated_task_creator_begin(saved, id, "deadline")
                       ELSE NoGen
    /\ ret' = None

NextRule ==
    \/ TaskPerformCreate
    \/ TaskPerformUpdate
    \/ RepeatedTaskCreatorLoop
    \/ RepeatedTaskCreatorReturn

SpecRule == InitRule /\ [][NextRule]_vars

\* the generator ran for no task twice
RanAtMostOnce ==
    \A i, j \in 1 .. Len(call.ran) : call.ran[i] = call.ran[j] => i = j

\* a request was served, the generator's part of it included
Served == call.op \in {"perform_create", "perform_update"} /\ Idle

\* C29: over any sequence of creates and updates of tasks the generator runs
\* for a task at most once, and only in the request that stores a rule on a
\* task that had none; an update of a task that carries a rule leaves the
\* rule as it is and the store as it was.
C29_GeneratorRunsOnceWhenTheRuleIsFirstStored ==
    /\ RanAtMostOnce
    /\ call.op \in {"perform_create", "perform_update"} =>
         /\ call.generates =>
              /\ call.old = NoRule
              /\ pre.tasks[call.instance].rrule = call.rrule
              /\ call.rrule # NoRule
         /\ (call.op = "perform_update" /\ call.old # NoRule) =>
              /\ ~call.generates
              /\ gen = NoGen
              /\ db = call.before
              /\ db.tasks[call.instance].rrule = call.old

\* an update that brings another rule for a task whose rule has generated an
\* instance
C29_Witness ==
    /\ call.op = "perform_update"
    /\ call.old # NoRule /\ call.rrule # NoRule /\ call.rrule # call.old
    /\ call.instance \in SeqToSet(call.ran)
    /\ \E t \in Objects(db.tasks) : db.tasks[t].parent_task = call.instance

====
